---- MODULE Spec2Model ----
(***************************************************************************)
(* A model of rlox, a tree-walking interpreter for Lox.                    *)
(*                                                                         *)
(* The interpreter's recursive functions (Resolve, Eval, Exec, run_block,  *)
(* LoxFunction::call, ...) are RECURSIVE operators that thread the heap    *)
(* `st` (environment frames, function, class and instance objects, the     *)
(* output sink) and return a result tagged Ok, Err (a Rust Err carried by  *)
(* `?`) or Panic (a Rust panic, which aborts the process).  Rc pointers    *)
(* are indices into the heap's sequences, so pointer identity is index     *)
(* equality and a shared frame is one heap cell.                           *)
(*                                                                         *)
(* The state machine is the host program of main.rs: file mode or the      *)
(* interactive prompt, Interpreter::run's phases and its loop over the     *)
(* top-level statements.                                                   *)
(***************************************************************************)
EXTENDS Integers, Sequences, FiniteSets, TLC

(***************************************************************************)
(* Option<T>: None is the empty tuple, Some(x) the one-element tuple.      *)
(***************************************************************************)
None == <<>>

Some(x) == <<x>>

IsSome(o) == Len(o) > 0

Unwrap(o) == o[1]

(***************************************************************************)
(* f64.  A number is sign and magnitude: k is "fin" (num/den in lowest     *)
(* terms), "inf" or "nan"; neg is the sign bit, so +0 and -0 differ.  The  *)
(* arithmetic is IEEE-754 on the values that need no rounding.             *)
(***************************************************************************)
RECURSIVE GCD(_, _)
GCD(a, b) == IF b = 0 THEN a ELSE GCD(b, a % b)

Fin(neg, num, den) ==
    LET g == GCD(num, den)
    IN  [k |-> "fin", neg |-> neg, num |-> num \div g, den |-> den \div g]

Inf(neg) == [k |-> "inf", neg |-> neg, num |-> 0, den |-> 1]

NaN == [k |-> "nan", neg |-> FALSE, num |-> 0, den |-> 1]

F64(i) == IF i < 0 THEN Fin(TRUE, 0 - i, 1) ELSE Fin(FALSE, i, 1)

IsZero(a) == a.k = "fin" /\ a.num = 0

Signed(a) == IF a.neg THEN 0 - a.num ELSE a.num

FNeg(a) == IF a.k = "nan" THEN NaN ELSE [a EXCEPT !.neg = ~a.neg]

FAdd(a, b) ==
    IF a.k = "nan" \/ b.k = "nan" THEN NaN
    ELSE IF a.k = "inf" /\ b.k = "inf"
         THEN IF a.neg = b.neg THEN a ELSE NaN
    ELSE IF a.k = "inf" THEN a
    ELSE IF b.k = "inf" THEN b
    ELSE LET s == Signed(a) * b.den + Signed(b) * a.den
             d == a.den * b.den
         IN  IF s = 0 THEN Fin(a.neg /\ b.neg, 0, 1)
             ELSE IF s < 0 THEN Fin(TRUE, 0 - s, d)
             ELSE Fin(FALSE, s, d)

FSub(a, b) == FAdd(a, FNeg(b))

FMul(a, b) ==
    IF a.k = "nan" \/ b.k = "nan" THEN NaN
    ELSE IF (a.k = "inf" /\ IsZero(b)) \/ (b.k = "inf" /\ IsZero(a)) THEN NaN
    ELSE IF a.k = "inf" \/ b.k = "inf" THEN Inf(a.neg # b.neg)
    ELSE Fin(a.neg # b.neg, a.num * b.num, a.den * b.den)

FDiv(a, b) ==
    IF a.k = "nan" \/ b.k = "nan" THEN NaN
    ELSE IF a.k = "inf" /\ b.k = "inf" THEN NaN
    ELSE IF IsZero(a) /\ IsZero(b) THEN NaN
    ELSE IF a.k = "inf" \/ IsZero(b) THEN Inf(a.neg # b.neg)
    ELSE IF b.k = "inf" THEN Fin(a.neg # b.neg, 0, 1)
    ELSE Fin(a.neg # b.neg, a.num * b.den, a.den * b.num)

FEq(a, b) ==
    IF a.k = "nan" \/ b.k = "nan" THEN FALSE
    ELSE IF a.k = "inf" \/ b.k = "inf" THEN a.k = b.k /\ a.neg = b.neg
    ELSE Signed(a) * b.den = Signed(b) * a.den

FLt(a, b) ==
    IF a.k = "nan" \/ b.k = "nan" THEN FALSE
    ELSE IF a.k = "inf" THEN a.neg /\ ~(b.k = "inf" /\ b.neg)
    ELSE IF b.k = "inf" THEN ~b.neg
    ELSE Signed(a) * b.den < Signed(b) * a.den

RECURSIVE FracDigits(_, _, _)
FracDigits(rem, den, k) ==
    IF rem = 0 \/ k = 0 THEN ""
    ELSE ToString((rem * 10) \div den) \o FracDigits((rem * 10) % den, den, k - 1)

\* f64's Display: no decimal point for an integral value, "inf", "NaN".
FDisplay(a) ==
    IF a.k = "nan" THEN "NaN"
    ELSE LET sign == IF a.neg THEN "-" ELSE ""
         IN  IF a.k = "inf" THEN sign \o "inf"
             ELSE IF a.den = 1 THEN sign \o ToString(a.num)
             ELSE sign \o ToString(a.num \div a.den) \o "."
                       \o FracDigits(a.num % a.den, a.den, 17)

(***************************************************************************)
(* LoxType.  Callable, Class and Instance hold an Rc: `v` is the index of  *)
(* the object in st.funs, st.classes, st.insts.                            *)
(***************************************************************************)
Nil == [t |-> "Nil", v |-> 0]

Boolean(b) == [t |-> "Boolean", v |-> b]

Number(f) == [t |-> "Number", v |-> f]

String(s) == [t |-> "String", v |-> s]

Callable(r) == [t |-> "Callable", v |-> r]

Class(r) == [t |-> "Class", v |-> r]

Instance(r) == [t |-> "Instance", v |-> r]

IsTruthy(x) ==
    CASE x.t = "Number" -> TRUE
      [] x.t = "Boolean" -> x.v
      [] x.t = "String" -> TRUE
      [] x.t = "Nil" -> FALSE
      [] x.t = "Callable" -> TRUE
      [] x.t = "Class" -> TRUE
      [] x.t = "Instance" -> TRUE

\* impl PartialEq for LoxType: the match has no arm for two instances.
LoxEq(l, r) ==
    CASE l.t = "Number" /\ r.t = "Number" -> FEq(l.v, r.v)
      [] l.t = "String" /\ r.t = "String" -> l.v = r.v
      [] l.t = "Boolean" /\ r.t = "Boolean" -> l.v = r.v
      [] l.t = "Nil" /\ r.t = "Nil" -> TRUE
      [] l.t = "Callable" /\ r.t = "Callable" -> l.v = r.v
      [] l.t = "Class" /\ r.t = "Class" -> l.v = r.v
      [] OTHER -> FALSE

\* impl Display for LoxType, LoxFunction, Clock, LoxClass, LoxInstance.
Display(x, st) ==
    CASE x.t = "Number" -> FDisplay(x.v)
      [] x.t = "Boolean" -> IF x.v THEN "true" ELSE "false"
      [] x.t = "String" -> x.v
      [] x.t = "Nil" -> "nil"
      [] x.t = "Callable" ->
            IF st.funs[x.v].native THEN "<native fn clock>"
            ELSE "<fn \"" \o st.funs[x.v].name \o "\">"
      [] x.t = "Class" -> st.classes[x.v].name
      [] x.t = "Instance" -> st.classes[st.insts[x.v].class].name \o " instance"

(***************************************************************************)
(* Results.  Ok carries a value, Err an ErrorDetail, Panic the message of  *)
(* a panic; each carries the heap as the callee left it.                   *)
(***************************************************************************)
Ok(x, st) == [tag |-> "Ok", val |-> x, st |-> st]

Err(e, st) == [tag |-> "Err", val |-> e, st |-> st]

Panic(msg, st) == [tag |-> "Panic", val |-> msg, st |-> st]

ErrorDetail(line, message) == [line |-> line, message |-> message]

\* Error::RuntimeError(ErrorDetail::new(line, message)).  The heap records
\* what the run had done when the error was raised (history only).
RuntimeError(line, message, st) ==
    Err(ErrorDetail(line, message),
        [st EXCEPT !.raised = Append(@, [detail |-> ErrorDetail(line, message),
                                         out |-> st.out, envs |-> st.envs,
                                         insts |-> st.insts, steps |-> st.steps])])

(***************************************************************************)
(* Environment (interpreter/env.rs).  A frame is a cell of st.envs.        *)
(***************************************************************************)
Insert(m, name, value) ==
    [n \in (DOMAIN m) \cup {name} |-> IF n = name THEN value ELSE m[n]]

EmptyMap == [n \in {} |-> 0]

\* Environment::new: returns the new frame's Rc and the heap holding it.
EnvironmentNew(maybe_enclosing, st) ==
    [rc |-> Len(st.envs) + 1,
     st |-> [st EXCEPT !.envs = Append(@, [maybe_enclosing |-> maybe_enclosing,
                                           values |-> EmptyMap])]]

EnvDefine(env, name, value, st) ==
    [st EXCEPT !.envs[env].values = Insert(@, name, value)]

RECURSIVE EnvAssignAt(_, _, _, _, _)
EnvAssignAt(env, distance, name, value, st) ==
    IF distance = 0
    THEN IF name \in DOMAIN st.envs[env].values
         THEN Ok(Nil, [st EXCEPT !.envs[env].values = Insert(@, name, value)])
         ELSE Err("UndefinedVariable", st)
    ELSE IF IsSome(st.envs[env].maybe_enclosing)
         THEN EnvAssignAt(Unwrap(st.envs[env].maybe_enclosing), distance - 1,
                          name, value, st)
         ELSE Panic("could not assign variable", st)

RECURSIVE EnvGetAt(_, _, _, _)

\* A get_at that goes on to the enclosing frame when the frame it reached
\* has no binding.
EnvGetAtChain(env, distance, name, st) ==
    IF distance = 0
    THEN IF name \in DOMAIN st.envs[env].values
         THEN Ok(st.envs[env].values[name], st)
         ELSE IF IsSome(st.envs[env].maybe_enclosing)
         THEN EnvGetAt(Unwrap(st.envs[env].maybe_enclosing), 0, name, st)
         ELSE Err("UndefinedVariable", st)
    ELSE IF IsSome(st.envs[env].maybe_enclosing)
         THEN EnvGetAt(Unwrap(st.envs[env].maybe_enclosing), distance - 1, name, st)
         ELSE Panic("could not read variable", st)

EnvGetAt(env, distance, name, st) ==
    IF distance = 0
    THEN IF name \in DOMAIN st.envs[env].values
         THEN Ok(st.envs[env].values[name], st)
         ELSE Err("UndefinedVariable", st)
    ELSE IF IsSome(st.envs[env].maybe_enclosing)
         THEN EnvGetAt(Unwrap(st.envs[env].maybe_enclosing), distance - 1, name, st)
         ELSE Panic("could not read variable", st)

(***************************************************************************)
(* Context (interpreter/mod.rs): the globals frame and the current frame.  *)
(***************************************************************************)
Context(globals, env) == [globals |-> globals, env |-> env]

CtxDefine(ctx, name, value, st) == EnvDefine(ctx.env, name, value, st)

CtxAssignAt(ctx, maybe_distance, name, value, st) ==
    IF IsSome(maybe_distance)
    THEN EnvAssignAt(ctx.env, Unwrap(maybe_distance), name, value, st)
    ELSE EnvAssignAt(ctx.globals, 0, name, value, st)

CtxGetAt(ctx, maybe_distance, name, st) ==
    IF IsSome(maybe_distance)
    THEN EnvGetAt(ctx.env, Unwrap(maybe_distance), name, st)
    ELSE EnvGetAt(ctx.globals, 0, name, st)

\* write_stdout: the sink is the sequence of the chunks written.
WriteStdout(t, st) == [st EXCEPT !.out = Append(@, t)]

NewChildCtx(ctx, st) ==
    LET e == EnvironmentNew(Some(ctx.env), st)
    IN  [ctx |-> Context(ctx.globals, e.rc), st |-> e.st]

(***************************************************************************)
(* The syntax tree (ast/expression.rs, ast/statement.rs).  A node is a     *)
(* record whose `kind` is the struct's name; Box<dyn ...> is the record.   *)
(***************************************************************************)
NilExpression == [kind |-> "NilExpression"]

LiteralExpression(x) == [kind |-> "LiteralExpression", value |-> x]

NegExpression(expression, line) ==
    [kind |-> "NegExpression", expression |-> expression, line |-> line]

NotExpression(expression) == [kind |-> "NotExpression", expression |-> expression]

GroupingExpression(expression) ==
    [kind |-> "GroupingExpression", expression |-> expression]

BinaryExpression(left, operator, right, line) ==
    [kind |-> "BinaryExpression", left |-> left, right |-> right,
     operator |-> operator, line |-> line]

VariableExpression(name, line) ==
    [kind |-> "VariableExpression", name |-> name, maybe_distance |-> None,
     line |-> line]

AssignExpression(name, value, line) ==
    [kind |-> "AssignExpression", name |-> name, value |-> value,
     maybe_distance |-> None, line |-> line]

LogicalExpression(left, operator, right) ==
    [kind |-> "LogicalExpression", left |-> left, right |-> right,
     operator |-> operator]

CallExpression(callee, arguments, line) ==
    [kind |-> "CallExpression", callee |-> callee, arguments |-> arguments,
     line |-> line]

GetExpression(object, name, line) ==
    [kind |-> "GetExpression", object |-> object, name |-> name, line |-> line]

SetExpression(object, name, value, line) ==
    [kind |-> "SetExpression", object |-> object, name |-> name,
     value |-> value, line |-> line]

ThisExpression(line) ==
    [kind |-> "ThisExpression", maybe_distance |-> None, line |-> line]

SuperExpression(method, line) ==
    [kind |-> "SuperExpression", method |-> method, maybe_distance |-> None,
     line |-> line]

PrintStatement(expression, line) ==
    [kind |-> "PrintStatement", expression |-> expression, line |-> line]

ExpressionStatement(expression) ==
    [kind |-> "ExpressionStatement", expression |-> expression]

VarStatement(name, initializer, line) ==
    [kind |-> "VarStatement", name |-> name, initializer |-> initializer,
     line |-> line]

BlockStatement(statements) == [kind |-> "BlockStatement", statements |-> statements]

IfStatement(condition, then_branch, else_branch) ==
    [kind |-> "IfStatement", condition |-> condition,
     then_branch |-> then_branch, else_branch |-> else_branch]

WhileStatement(condition, body) ==
    [kind |-> "WhileStatement", condition |-> condition, body |-> body]

Parameter(name, line) == [name |-> name, line |-> line]

FunctionStatement(name, parameters, statements, line) ==
    [kind |-> "FunctionStatement", name |-> name, parameters |-> parameters,
     statements |-> statements, line |-> line]

ReturnStatement(maybe_expression, line) ==
    [kind |-> "ReturnStatement", maybe_expression |-> maybe_expression,
     line |-> line]

\* methods is the HashMap name -> FunctionStatement.
ClassStatement(name, methods, maybe_superclass, line) ==
    [kind |-> "ClassStatement", name |-> name, methods |-> methods,
     maybe_superclass |-> maybe_superclass, line |-> line]

(***************************************************************************)
(* The evaluator (interpreter/eval.rs, exec.rs, mod.rs, loxtype.rs).       *)
(* `r.tag # "Ok"` followed by `r` is Rust's `?` (and the unwinding of a    *)
(* panic).                                                                 *)
(***************************************************************************)
Void == [sr |-> "Void", v |-> Nil]

Return(x) == [sr |-> "Return", v |-> x]

RECURSIVE Eval(_, _, _)
RECURSIVE Exec(_, _, _)
RECURSIVE EvalArguments(_, _, _, _, _)
RECURSIVE RunStatements(_, _, _, _)
RECURSIVE GetMethod(_, _, _, _, _)
RECURSIVE ExecWhile(_, _, _)

\* `let v = ...;`: the value is computed once and named.
Bind(v, F(_)) == CHOOSE y \in {F(x) : x \in {v}} : TRUE

\* `let r = ...?;`: an Err (or a panic) leaves the function at once.
Try(r, F(_)) ==
    CHOOSE y \in {IF x.tag # "Ok" THEN x ELSE F(x) : x \in {r}} : TRUE

\* Result::unwrap and Option::unwrap: an Err or a None is a panic.
UnwrapResult(r) ==
    IF r.tag = "Err" THEN Panic("called Result::unwrap() on an Err value", r.st)
    ELSE r

\* Rc::new of a function, class or instance object: its index in the heap.
RcNewFunction(f, st) ==
    [rc |-> Len(st.funs) + 1, st |-> [st EXCEPT !.funs = Append(@, f)]]

RcNewClass(c, st) ==
    [rc |-> Len(st.classes) + 1, st |-> [st EXCEPT !.classes = Append(@, c)]]

\* The native function Clock (native_fns.rs), as an object of the heap.
Clock ==
    [native |-> TRUE, name |-> "clock", parameters |-> <<>>, statements |-> <<>>,
     is_initializer |-> FALSE, ctx |-> Context(0, 0)]

\* Clock::call: the whole seconds since the epoch, read from the host clock.
ClockCall(arguments, st) == Ok(Number(F64(st.now)), st)

\* A from_statement that captures a copy of the frame, not the frame.
FromStatementCopy(stmt, ctx, bind_this, st) ==
    [f |-> [native |-> FALSE, name |-> stmt.name,
            parameters |-> [i \in 1..Len(stmt.parameters) |-> stmt.parameters[i].name],
            statements |-> stmt.statements,
            is_initializer |-> IsSome(bind_this) /\ stmt.name = "init",
            ctx |-> Context(ctx.globals, Len(st.envs) + 1)],
     st |-> IF IsSome(bind_this)
            THEN [st EXCEPT !.envs = Append(@, [maybe_enclosing |-> Some(ctx.env),
                                                 values |-> "this" :> Unwrap(bind_this)])]
            ELSE [st EXCEPT !.envs = Append(@, st.envs[ctx.env])]]

\* LoxFunction::from_statement: the function object and the heap (a bound
\* method gets a child frame that defines `this`).
FromStatement(stmt, ctx, bind_this, st) ==
    LET is_initializer == IsSome(bind_this) /\ stmt.name = "init"
        child == NewChildCtx(ctx, st)
        fn_ctx == IF IsSome(bind_this) THEN child.ctx ELSE ctx
        st1 == IF IsSome(bind_this)
               THEN CtxDefine(child.ctx, "this", Unwrap(bind_this), child.st)
               ELSE st
    IN  [f |-> [native |-> FALSE, name |-> stmt.name,
                parameters |-> [i \in 1..Len(stmt.parameters) |->
                                    stmt.parameters[i].name],
                statements |-> stmt.statements,
                is_initializer |-> is_initializer, ctx |-> fn_ctx],
         st |-> st1]

\* block_ctx.define(param, arg) for each pair of the zip.
DefineParams(ctx, params, args, st) ==
    LET RECURSIVE Go(_, _)
        Go(i, s) == IF i > Len(params) THEN s
                    ELSE Go(i + 1, CtxDefine(ctx, params[i], args[i], s))
    IN  Go(1, st)

\* A loop over the statements that goes on after a statement's error.
RunStatementsOn(ctx, statements, i, st) ==
    IF i > Len(statements) THEN Ok(Void, st)
    ELSE Bind(Exec(statements[i], ctx, st),
              LAMBDA r : IF r.tag = "Panic" THEN r
                         ELSE IF r.tag = "Ok" /\ r.val.sr = "Return" THEN r
                         ELSE RunStatements(ctx, statements, i + 1, r.st))

\* run_block's loop over the statements.
RunStatements(ctx, statements, i, st) ==
    IF i > Len(statements) THEN Ok(Void, st)
    ELSE Try(Exec(statements[i], ctx, st),
             LAMBDA r : IF r.val.sr = "Return" THEN r
                        ELSE RunStatements(ctx, statements, i + 1, r.st))

\* A run_block that makes no child frame: the block runs in the caller's.
RunBlockInPlace(ctx, statements, maybe_params_args, st) ==
    IF IsSome(maybe_params_args)
    THEN RunStatements(ctx, statements, 1,
                       DefineParams(ctx, Unwrap(maybe_params_args)[1],
                                    Unwrap(maybe_params_args)[2], st))
    ELSE RunStatements(ctx, statements, 1, st)

RunBlock(ctx, statements, maybe_params_args, st) ==
    Bind(NewChildCtx(ctx, st),
         LAMBDA block :
            IF IsSome(maybe_params_args)
            THEN IF Len(Unwrap(maybe_params_args)[1]) # Len(Unwrap(maybe_params_args)[2])
                 THEN Panic("assertion failed: params.len() == args.len()", block.st)
                 ELSE RunStatements(block.ctx, statements, 1,
                                    DefineParams(block.ctx, Unwrap(maybe_params_args)[1],
                                                 Unwrap(maybe_params_args)[2], block.st))
            ELSE RunStatements(block.ctx, statements, 1, block.st))

\* impl LoxCallable for LoxFunction: arity and call.
LoxFunctionArity(f) == Len(f.parameters)

\* A call that gives an initializer no special result.
LoxFunctionCallPlain(f, arguments, st) ==
    Try(RunBlock(f.ctx, f.statements, Some(<<f.parameters, arguments>>), st),
        LAMBDA block_res :
            IF block_res.val.sr = "Void" THEN Ok(Nil, block_res.st)
            ELSE Ok(block_res.val.v, block_res.st))

LoxFunctionCall(f, arguments, st) ==
    Try(RunBlock(f.ctx, f.statements, Some(<<f.parameters, arguments>>), st),
        LAMBDA block_res :
            IF f.is_initializer
            THEN UnwrapResult(CtxGetAt(f.ctx, Some(0), "this", block_res.st))
            ELSE IF block_res.val.sr = "Void" THEN Ok(Nil, block_res.st)
            ELSE Ok(block_res.val.v, block_res.st))

\* dyn LoxCallable: LoxFunction or Clock.
Arity(f) == IF f.native THEN 0 ELSE LoxFunctionArity(f)

Call(f, arguments, st) ==
    IF f.native THEN ClockCall(arguments, st) ELSE LoxFunctionCall(f, arguments, st)

ArityMessage(n, m) ==
    "Expected " \o ToString(n) \o " arguments but got " \o ToString(m) \o "."

\* LoxClass::new
LoxClassNew(stmt, maybe_superclass, ctx, st) ==
    LET child == NewChildCtx(ctx, st)
        class_ctx == IF IsSome(maybe_superclass) THEN child.ctx ELSE ctx
        st1 == IF IsSome(maybe_superclass)
               THEN CtxDefine(child.ctx, "super", Class(Unwrap(maybe_superclass)),
                              child.st)
               ELSE st
    IN  [c |-> [name |-> stmt.name, maybe_superclass |-> maybe_superclass,
                methods |-> stmt.methods, ctx |-> class_ctx],
         st |-> st1]

\* LoxClass::get_method: Ok carries the bound LoxFunction (not yet in an Rc).
GetMethod(class, name, this, line, st) ==
    IF name \in DOMAIN st.classes[class].methods
    THEN Bind(FromStatement(st.classes[class].methods[name], st.classes[class].ctx,
                            Some(this), st),
              LAMBDA b : Ok(b.f, b.st))
    ELSE IF IsSome(st.classes[class].maybe_superclass)
         THEN GetMethod(Unwrap(st.classes[class].maybe_superclass), name, this, line, st)
         ELSE RuntimeError(line, "Undefined property '" \o name \o "'.", st)

\* .map(|m| LoxType::Callable(Rc::new(m)))
MapCallable(r) ==
    Try(r, LAMBDA m : Bind(RcNewFunction(m.val, m.st),
                           LAMBDA n : Ok(Callable(n.rc), n.st)))

\* LoxInstance::new
LoxInstanceNew(class, st) ==
    [rc |-> Len(st.insts) + 1,
     st |-> [st EXCEPT !.insts = Append(@, [class |-> class, fields |-> EmptyMap])]]

\* A get that looks for a method before it looks at the fields.
LoxInstanceGetMethodFirst(instance, name, line, st) ==
    Bind(GetMethod(st.insts[instance].class, name, Instance(instance), line, st),
         LAMBDA m :
            IF m.tag = "Ok" THEN MapCallable(m)
            ELSE IF name \in DOMAIN st.insts[instance].fields
            THEN Ok(st.insts[instance].fields[name], st)
            ELSE m)

\* LoxInstance::get
LoxInstanceGet(instance, name, line, st) ==
    IF name \in DOMAIN st.insts[instance].fields
    THEN Ok(st.insts[instance].fields[name], st)
    ELSE MapCallable(GetMethod(st.insts[instance].class, name, Instance(instance),
                               line, st))

\* LoxInstance::set
LoxInstanceSet(instance, name, value, st) ==
    Ok(value, [st EXCEPT !.insts[instance].fields = Insert(@, name, value)])

\* An instantiate that returns the new instance without running init.
InstantiateNoInit(class, init_arguments, line, st) ==
    Bind(LoxInstanceNew(class, st), LAMBDA new : Ok(Instance(new.rc), new.st))

\* LoxClass::instantiate.  `.ok()` drops get_method's error: it was never
\* raised to the program.
MaybeInitMethod(m, st) ==
    IF m.tag = "Ok" THEN [maybe_init_method |-> Some(m.val), st |-> m.st]
    ELSE [maybe_init_method |-> None, st |-> st]

InitArity(maybe_init_method) ==
    IF IsSome(maybe_init_method) THEN LoxFunctionArity(Unwrap(maybe_init_method)) ELSE 0

Instantiate(class, init_arguments, line, st) ==
    Bind(LoxInstanceNew(class, st),
         LAMBDA new :
    Bind(MaybeInitMethod(GetMethod(class, "init", Instance(new.rc), line, new.st), new.st),
         LAMBDA m :
            IF InitArity(m.maybe_init_method) # Len(init_arguments)
            THEN RuntimeError(line,
                     ArityMessage(InitArity(m.maybe_init_method), Len(init_arguments)),
                     m.st)
            ELSE IF IsSome(m.maybe_init_method)
                 THEN Try(LoxFunctionCall(Unwrap(m.maybe_init_method), init_arguments,
                                          m.st),
                          LAMBDA r : Ok(Instance(new.rc), r.st))
                 ELSE Ok(Instance(new.rc), m.st)))

(***************************************************************************)
(* impl Eval for ... (interpreter/eval.rs)                                 *)
(***************************************************************************)
EvalNil(e, ctx, st) == Ok(Nil, st)

EvalLiteral(e, ctx, st) == Ok(e.value, st)

EvalNeg(e, ctx, st) ==
    Try(Eval(e.expression, ctx, st),
        LAMBDA r : IF r.val.t = "Number" THEN Ok(Number(FNeg(r.val.v)), r.st)
                   ELSE RuntimeError(e.line, "Operand must be a number.", r.st))

EvalNot(e, ctx, st) ==
    Try(Eval(e.expression, ctx, st), LAMBDA r : Ok(Boolean(~IsTruthy(r.val)), r.st))

EvalGrouping(e, ctx, st) == Eval(e.expression, ctx, st)

\* The match on self.operator, both operands evaluated.
BinaryOp(operator, left, right, line, st) ==
    LET numbers == left.t = "Number" /\ right.t = "Number"
        strings == left.t = "String" /\ right.t = "String"
        l == left.v
        r == right.v
        incompatible_operands == RuntimeError(line, "Incompatible operands.", st)
    IN  CASE operator = "Add" ->
                IF numbers THEN Ok(Number(FAdd(l, r)), st)
                ELSE IF strings THEN Ok(String(l \o r), st)
                ELSE incompatible_operands
          [] operator = "Substract" ->
                IF numbers THEN Ok(Number(FSub(l, r)), st) ELSE incompatible_operands
          [] operator = "Multiply" ->
                IF numbers THEN Ok(Number(FMul(l, r)), st) ELSE incompatible_operands
          [] operator = "Divide" ->
                IF numbers THEN Ok(Number(FDiv(l, r)), st) ELSE incompatible_operands
          [] operator = "Equal" -> Ok(Boolean(LoxEq(left, right)), st)
          [] operator = "NotEqual" -> Ok(Boolean(~LoxEq(left, right)), st)
          [] operator = "Less" ->
                IF numbers THEN Ok(Boolean(FLt(l, r)), st) ELSE incompatible_operands
          [] operator = "LessOrEqual" ->
                IF numbers THEN Ok(Boolean(FLt(l, r) \/ FEq(l, r)), st)
                ELSE incompatible_operands
          [] operator = "Greater" ->
                IF numbers THEN Ok(Boolean(FLt(r, l)), st) ELSE incompatible_operands
          [] operator = "GreaterOrEqual" ->
                IF numbers THEN Ok(Boolean(FLt(r, l) \/ FEq(l, r)), st)
                ELSE incompatible_operands

EvalBinary(e, ctx, st) ==
    Try(Eval(e.left, ctx, st),
        LAMBDA left :
    Try(Eval(e.right, ctx, left.st),
        LAMBDA right :
            BinaryOp(e.operator, left.val, right.val, e.line, right.st)))

\* Result<_, UndefinedVariable> of get_at / assign_at into the node's error.
UndefinedVariable(r, e) ==
    IF r.tag = "Err"
    THEN RuntimeError(e.line, "Undefined variable '" \o e.name \o "'.", r.st)
    ELSE r

EvalVariable(e, ctx, st) ==
    UndefinedVariable(CtxGetAt(ctx, e.maybe_distance, e.name, st), e)

EvalAssign(e, ctx, st) ==
    Try(Eval(e.value, ctx, st),
        LAMBDA value :
    Bind(CtxAssignAt(ctx, e.maybe_distance, e.name, value.val, value.st),
        LAMBDA a : IF a.tag = "Ok" THEN Ok(value.val, a.st)
                   ELSE UndefinedVariable(a, e)))

\* A logical operator that evaluates both operands before it chooses.
EvalLogicalEager(e, ctx, st) ==
    Try(Eval(e.left, ctx, st),
        LAMBDA left :
    Try(Eval(e.right, ctx, left.st),
        LAMBDA right :
            IF e.operator = "And"
            THEN IF ~IsTruthy(left.val) THEN Ok(left.val, right.st) ELSE right
            ELSE IF IsTruthy(left.val) THEN Ok(left.val, right.st) ELSE right))

EvalLogical(e, ctx, st) ==
    Try(Eval(e.left, ctx, st),
        LAMBDA left :
            IF e.operator = "And"
            THEN IF ~IsTruthy(left.val) THEN left ELSE Eval(e.right, ctx, left.st)
            ELSE IF IsTruthy(left.val) THEN left ELSE Eval(e.right, ctx, left.st))

\* self.arguments.iter().map(|a| a.eval(..)).collect::<Result<Vec<_>>>()
EvalArguments(arguments, i, ctx, st, acc) ==
    IF i > Len(arguments) THEN Ok(acc, st)
    ELSE Try(Eval(arguments[i], ctx, st),
             LAMBDA r : EvalArguments(arguments, i + 1, ctx, r.st, Append(acc, r.val)))

\* A call that does not compare the arity with the number of arguments.
CallUnchecked(callable, arguments, line, st) == Call(callable, arguments, st)

\* The arm LoxType::Callable(callable) of the match on the callee.
CallCallable(callable, arguments, line, st) ==
    IF Arity(callable) # Len(arguments)
    THEN RuntimeError(line, ArityMessage(Arity(callable), Len(arguments)), st)
    ELSE Call(callable, arguments, st)

EvalCall(e, ctx, st) ==
    Try(Eval(e.callee, ctx, st),
        LAMBDA callee :
    Try(EvalArguments(e.arguments, 1, ctx, callee.st, <<>>),
        LAMBDA arguments :
            IF callee.val.t = "Callable"
            THEN CallCallable(arguments.st.funs[callee.val.v], arguments.val, e.line,
                              arguments.st)
            ELSE IF callee.val.t = "Class"
            THEN Instantiate(callee.val.v, arguments.val, e.line, arguments.st)
            ELSE RuntimeError(e.line, "Can only call functions and classes.",
                              arguments.st)))

EvalGet(e, ctx, st) ==
    Try(Eval(e.object, ctx, st),
        LAMBDA object :
            IF object.val.t = "Instance"
            THEN LoxInstanceGet(object.val.v, e.name, e.line, object.st)
            ELSE RuntimeError(e.line, "Only instances have properties.", object.st))

EvalSet(e, ctx, st) ==
    Try(Eval(e.object, ctx, st),
        LAMBDA object :
            IF object.val.t = "Instance"
            THEN Try(Eval(e.value, ctx, object.st),
                     LAMBDA value :
                        LoxInstanceSet(object.val.v, e.name, value.val, value.st))
            ELSE RuntimeError(e.line, "Only instances have fields.", object.st))

EvalThis(e, ctx, st) == UnwrapResult(CtxGetAt(ctx, e.maybe_distance, "this", st))

\* self.maybe_distance.unwrap() - 1 on a u32: None and 0 both panic.
\* A super that starts at the superclass of the receiver's class.
EvalSuperOfReceiver(e, ctx, st) ==
    Try(UnwrapResult(CtxGetAt(ctx, Some(Unwrap(e.maybe_distance) - 1), "this", st)),
        LAMBDA this :
            MapCallable(GetMethod(
                Unwrap(st.classes[st.insts[this.val.v].class].maybe_superclass),
                e.method, this.val, e.line, st)))

EvalSuper(e, ctx, st) ==
    Try(UnwrapResult(CtxGetAt(ctx, e.maybe_distance, "super", st)),
        LAMBDA superclass :
            IF ~IsSome(e.maybe_distance)
            THEN Panic("called Option::unwrap() on a None value", st)
            ELSE IF Unwrap(e.maybe_distance) = 0
            THEN Panic("attempt to subtract with overflow", st)
            ELSE Try(UnwrapResult(CtxGetAt(ctx, Some(Unwrap(e.maybe_distance) - 1),
                                           "this", st)),
                     LAMBDA this :
                        IF superclass.val.t = "Class"
                        THEN MapCallable(GetMethod(superclass.val.v, e.method, this.val,
                                                   e.line, st))
                        ELSE Panic("Superclass is not a class.", st)))

\* The dynamic dispatch of Box<dyn Expression>.
Eval(e, ctx, st) ==
    CASE e.kind = "NilExpression" -> EvalNil(e, ctx, st)
      [] e.kind = "LiteralExpression" -> EvalLiteral(e, ctx, st)
      [] e.kind = "NegExpression" -> EvalNeg(e, ctx, st)
      [] e.kind = "NotExpression" -> EvalNot(e, ctx, st)
      [] e.kind = "GroupingExpression" -> EvalGrouping(e, ctx, st)
      [] e.kind = "BinaryExpression" -> EvalBinary(e, ctx, st)
      [] e.kind = "VariableExpression" -> EvalVariable(e, ctx, st)
      [] e.kind = "AssignExpression" -> EvalAssign(e, ctx, st)
      [] e.kind = "LogicalExpression" -> EvalLogical(e, ctx, st)
      [] e.kind = "CallExpression" -> EvalCall(e, ctx, st)
      [] e.kind = "GetExpression" -> EvalGet(e, ctx, st)
      [] e.kind = "SetExpression" -> EvalSet(e, ctx, st)
      [] e.kind = "ThisExpression" -> EvalThis(e, ctx, st)
      [] e.kind = "SuperExpression" -> EvalSuper(e, ctx, st)

(***************************************************************************)
(* impl Exec for ... (interpreter/exec.rs)                                 *)
(***************************************************************************)
ExecPrint(s, ctx, st) ==
    Try(Eval(s.expression, ctx, st),
        LAMBDA r : Ok(Void, WriteStdout(Display(r.val, r.st) \o "\n", r.st)))

ExecExpression(s, ctx, st) ==
    Try(Eval(s.expression, ctx, st), LAMBDA r : Ok(Void, r.st))

ExecVar(s, ctx, st) ==
    Try(IF IsSome(s.initializer) THEN Eval(Unwrap(s.initializer), ctx, st)
        ELSE Ok(Nil, st),
        LAMBDA value : Ok(Void, CtxDefine(ctx, s.name, value.val, value.st)))

\* A block that runs its statements in the frame it is executed in.
ExecBlockInPlace(s, ctx, st) == RunStatements(ctx, s.statements, 1, st)

ExecBlock(s, ctx, st) == RunBlock(ctx, s.statements, None, st)

ExecIf(s, ctx, st) ==
    Try(Eval(s.condition, ctx, st),
        LAMBDA c :
            IF IsTruthy(c.val) THEN Exec(s.then_branch, ctx, c.st)
            ELSE IF IsSome(s.else_branch) THEN Exec(Unwrap(s.else_branch), ctx, c.st)
            ELSE Ok(Void, c.st))

\* A while loop that ends at a return of its body and gives Void.
ExecWhileVoid(s, ctx, st) ==
    Try(Eval(s.condition, ctx, st),
        LAMBDA c :
            IF ~IsTruthy(c.val) THEN Ok(Void, c.st)
            ELSE Try(Exec(s.body, ctx, c.st),
                     LAMBDA b : IF b.val.sr = "Return" THEN Ok(Void, b.st)
                                ELSE ExecWhile(s, ctx, b.st)))

ExecWhile(s, ctx, st) ==
    Try(Eval(s.condition, ctx, st),
        LAMBDA c :
            IF ~IsTruthy(c.val) THEN Ok(Void, c.st)
            ELSE Try(Exec(s.body, ctx, c.st),
                     LAMBDA b : IF b.val.sr = "Return" THEN b
                                ELSE ExecWhile(s, ctx, b.st)))

ExecFunction(s, ctx, st) ==
    Bind(FromStatement(s, ctx, None, st),
         LAMBDA function :
    Bind(RcNewFunction(function.f, function.st),
         LAMBDA callable :
            Ok(Void, CtxDefine(ctx, s.name, Callable(callable.rc), callable.st))))

ExecReturn(s, ctx, st) ==
    Try(IF IsSome(s.maybe_expression) THEN Eval(Unwrap(s.maybe_expression), ctx, st)
        ELSE Ok(Nil, st),
        LAMBDA r : Ok(Return(r.val), r.st))

\* The closure mapped over self.maybe_superclass, transposed: Ok carries
\* the Option of the superclass's Rc.
EvalSuperclass(s, ctx, st) ==
    IF IsSome(s.maybe_superclass)
    THEN Try(Eval(Unwrap(s.maybe_superclass), ctx, st),
             LAMBDA sup :
                IF sup.val.t = "Class" THEN Ok(Some(sup.val.v), sup.st)
                ELSE RuntimeError(Unwrap(s.maybe_superclass).line,
                                  "Superclass must be a class.", sup.st))
    ELSE Ok(None, st)

ExecClass(s, ctx, st) ==
    Try(EvalSuperclass(s, ctx, st),
        LAMBDA maybe_superclass :
    Bind(LoxClassNew(s, maybe_superclass.val, ctx,
                     CtxDefine(ctx, s.name, Nil, maybe_superclass.st)),
         LAMBDA class :
    Bind(RcNewClass(class.c, class.st),
         LAMBDA rc :
    Try(UnwrapResult(CtxAssignAt(ctx, Some(0), s.name, Class(rc.rc), rc.st)),
        LAMBDA a : Ok(Void, a.st)))))

\* The dynamic dispatch of Box<dyn Statement>.
ExecDyn(s, ctx, st) ==
    CASE s.kind = "PrintStatement" -> ExecPrint(s, ctx, st)
      [] s.kind = "ExpressionStatement" -> ExecExpression(s, ctx, st)
      [] s.kind = "VarStatement" -> ExecVar(s, ctx, st)
      [] s.kind = "BlockStatement" -> ExecBlock(s, ctx, st)
      [] s.kind = "IfStatement" -> ExecIf(s, ctx, st)
      [] s.kind = "WhileStatement" -> ExecWhile(s, ctx, st)
      [] s.kind = "FunctionStatement" -> ExecFunction(s, ctx, st)
      [] s.kind = "ReturnStatement" -> ExecReturn(s, ctx, st)
      [] s.kind = "ClassStatement" -> ExecClass(s, ctx, st)

\* Exec::exec; `steps` counts the statements executed (history only).
Exec(s, ctx, st) == ExecDyn(s, ctx, [st EXCEPT !.steps = @ + 1])

(***************************************************************************)
(* The resolver (resolver/mod.rs, resolve_stmt.rs, resolve_expr.rs).       *)
(* `&mut self` on a node and `&mut Scopes` become the pair returned: the   *)
(* node with its resolution slot filled, and the scopes.                   *)
(***************************************************************************)
ScopesNew ==
    [scopes |-> <<>>, function_types |-> <<>>, class_types |-> <<>>,
     errors |-> <<>>]

\* Vec::pop (nothing happens on an empty vector).
Pop(v) == IF Len(v) = 0 THEN v ELSE SubSeq(v, 1, Len(v) - 1)

BeginScope(sc) == [sc EXCEPT !.scopes = Append(@, EmptyMap)]

EndScope(sc) == [sc EXCEPT !.scopes = Pop(@)]

BeginFunction(sc, fn_type) == [sc EXCEPT !.function_types = Append(@, fn_type)]

EndFunction(sc) == [sc EXCEPT !.function_types = Pop(@)]

BeginClass(sc, class_type) == [sc EXCEPT !.class_types = Append(@, class_type)]

EndClass(sc) == [sc EXCEPT !.class_types = Pop(@)]

PushError(sc, line, message) ==
    [sc EXCEPT !.errors = Append(@, ErrorDetail(line, message))]

\* A declare that replaces an entry the innermost scope already holds.
DeclareOverwrite(sc, name, line) ==
    IF Len(sc.scopes) = 0 THEN sc
    ELSE [sc EXCEPT !.scopes[Len(sc.scopes)] = Insert(@, name, "Declared")]

Declare(sc, name, line) ==
    IF Len(sc.scopes) = 0 THEN sc
    ELSE IF name \in DOMAIN sc.scopes[Len(sc.scopes)]
         THEN PushError(sc, line, "Already a variable with this name in this scope.")
         ELSE [sc EXCEPT !.scopes[Len(sc.scopes)] = Insert(@, name, "Declared")]

Define(sc, name) ==
    IF Len(sc.scopes) = 0 THEN sc
    ELSE [sc EXCEPT !.scopes[Len(sc.scopes)] = Insert(@, name, "Defined")]

\* A check that takes any entry of the innermost scope for an unfinished
\* declaration.
CheckInitializedHeld(sc, name, line) ==
    IF /\ Len(sc.scopes) > 0
       /\ name \in DOMAIN sc.scopes[Len(sc.scopes)]
    THEN PushError(sc, line, "Can't read local variable in its own initializer.")
    ELSE sc

CheckInitialized(sc, name, line) ==
    IF /\ Len(sc.scopes) > 0
       /\ name \in DOMAIN sc.scopes[Len(sc.scopes)]
       /\ sc.scopes[Len(sc.scopes)][name] = "Declared"
    THEN PushError(sc, line, "Can't read local variable in its own initializer.")
    ELSE sc

\* A resolve_local that counts from the outermost scope.
ResolveLocalFromOutermost(sc, name) ==
    LET hits == {i \in 1..Len(sc.scopes) : name \in DOMAIN sc.scopes[i]}
    IN  IF hits = {} THEN None
        ELSE Some((CHOOSE i \in hits : \A j \in hits : i <= j) - 1)

\* scopes.iter().rev().position(|hm| hm.contains_key(name))
ResolveLocal(sc, name) ==
    LET hits == {i \in 1..Len(sc.scopes) : name \in DOMAIN sc.scopes[i]}
    IN  IF hits = {} THEN None
        ELSE Some(Len(sc.scopes) - (CHOOSE i \in hits : \A j \in hits : j <= i))

Resolved(node, sc) == [node |-> node, sc |-> sc]

RECURSIVE ResolveExpr(_, _)
RECURSIVE ResolveStmt(_, _)
RECURSIVE ResolveAll(_, _, _, _)
RECURSIVE ResolveMethods(_, _, _, _)

\* Resolve each node of a vector in order (resolve_statements, and the
\* loops over arguments and statements).
ResolveAll(nodes, i, sc, isStmt) ==
    IF i > Len(nodes) THEN Resolved(nodes, sc)
    ELSE Bind(IF isStmt THEN ResolveStmt(nodes[i], sc) ELSE ResolveExpr(nodes[i], sc),
              LAMBDA r : ResolveAll([nodes EXCEPT ![i] = r.node], i + 1, r.sc, isStmt))

ResolveStatements(statements, sc) == ResolveAll(statements, 1, sc, TRUE)

ResolveUnary(e, sc) ==
    Bind(ResolveExpr(e.expression, sc),
         LAMBDA r : Resolved([e EXCEPT !.expression = r.node], r.sc))

\* impl Resolve for BinaryExpression and for LogicalExpression.
ResolveBinary(e, sc) ==
    Bind(ResolveExpr(e.left, sc),
         LAMBDA l :
    Bind(ResolveExpr(e.right, l.sc),
         LAMBDA r : Resolved([e EXCEPT !.left = l.node, !.right = r.node], r.sc)))

ResolveVariable(e, sc) ==
    Bind(CheckInitialized(sc, e.name, e.line),
         LAMBDA sc1 :
            Resolved([e EXCEPT !.maybe_distance = ResolveLocal(sc1, e.name)], sc1))

ResolveAssign(e, sc) ==
    Bind(ResolveExpr(e.value, sc),
         LAMBDA r :
            Resolved([e EXCEPT !.value = r.node,
                               !.maybe_distance = ResolveLocal(r.sc, e.name)], r.sc))

ResolveCall(e, sc) ==
    Bind(ResolveExpr(e.callee, sc),
         LAMBDA c :
    Bind(ResolveAll(e.arguments, 1, c.sc, FALSE),
         LAMBDA a : Resolved([e EXCEPT !.callee = c.node, !.arguments = a.node], a.sc)))

ResolveGet(e, sc) ==
    Bind(ResolveExpr(e.object, sc),
         LAMBDA r : Resolved([e EXCEPT !.object = r.node], r.sc))

ResolveSet(e, sc) ==
    Bind(ResolveExpr(e.value, sc),
         LAMBDA r :
    Bind(ResolveExpr(e.object, r.sc),
         LAMBDA o : Resolved([e EXCEPT !.value = r.node, !.object = o.node], o.sc)))

\* A resolve of `this` that does not look at the class-type stack.
ResolveThisUnchecked(e, sc) ==
    Resolved([e EXCEPT !.maybe_distance = ResolveLocal(sc, "this")], sc)

ResolveThis(e, sc) ==
    IF Len(sc.class_types) = 0
    THEN Resolved(e, PushError(sc, e.line, "Can't use 'this' outside of a class."))
    ELSE Resolved([e EXCEPT !.maybe_distance = ResolveLocal(sc, "this")], sc)

\* impl Resolve for SuperExpression is not among the sources; this is the
\* rule of the specification (section 4.2, "Super").
ResolveSuper(e, sc) ==
    IF Len(sc.class_types) = 0
    THEN Resolved(e, PushError(sc, e.line, "Can't use 'super' outside of a class."))
    ELSE IF sc.class_types[Len(sc.class_types)] # "Subclass"
         THEN Resolved(e, PushError(sc, e.line,
                              "Can't use 'super' in a class with no superclass."))
    ELSE Resolved([e EXCEPT !.maybe_distance = ResolveLocal(sc, "super")], sc)

ResolveExpr(e, sc) ==
    CASE e.kind = "NilExpression" -> Resolved(e, sc)
      [] e.kind = "LiteralExpression" -> Resolved(e, sc)
      [] e.kind = "NegExpression" -> ResolveUnary(e, sc)
      [] e.kind = "NotExpression" -> ResolveUnary(e, sc)
      [] e.kind = "GroupingExpression" -> ResolveUnary(e, sc)
      [] e.kind = "BinaryExpression" -> ResolveBinary(e, sc)
      [] e.kind = "VariableExpression" -> ResolveVariable(e, sc)
      [] e.kind = "AssignExpression" -> ResolveAssign(e, sc)
      [] e.kind = "LogicalExpression" -> ResolveBinary(e, sc)
      [] e.kind = "CallExpression" -> ResolveCall(e, sc)
      [] e.kind = "GetExpression" -> ResolveGet(e, sc)
      [] e.kind = "SetExpression" -> ResolveSet(e, sc)
      [] e.kind = "ThisExpression" -> ResolveThis(e, sc)
      [] e.kind = "SuperExpression" -> ResolveSuper(e, sc)

\* impl Resolve for PrintStatement and for ExpressionStatement.
ResolveExprStmt(s, sc) ==
    Bind(ResolveExpr(s.expression, sc),
         LAMBDA r : Resolved([s EXCEPT !.expression = r.node], r.sc))

\* `if let Some(x) = &mut option { x.resolve(scopes) }`: the Option of the
\* resolved node, and the scopes.
ResolveOption(option, sc, isStmt) ==
    IF IsSome(option)
    THEN Bind(IF isStmt THEN ResolveStmt(Unwrap(option), sc)
              ELSE ResolveExpr(Unwrap(option), sc),
              LAMBDA r : Resolved(Some(r.node), r.sc))
    ELSE Resolved(None, sc)

ResolveVar(s, sc) ==
    Bind(ResolveOption(s.initializer, Declare(sc, s.name, s.line), FALSE),
         LAMBDA i : Resolved([s EXCEPT !.initializer = i.node], Define(i.sc, s.name)))

ResolveBlock(s, sc) ==
    Bind(ResolveStatements(s.statements, BeginScope(sc)),
         LAMBDA r : Resolved([s EXCEPT !.statements = r.node], EndScope(r.sc)))

ResolveIf(s, sc) ==
    Bind(ResolveExpr(s.condition, sc),
         LAMBDA c :
    Bind(ResolveStmt(s.then_branch, c.sc),
         LAMBDA t :
    Bind(ResolveOption(s.else_branch, t.sc, TRUE),
         LAMBDA e :
            Resolved([s EXCEPT !.condition = c.node, !.then_branch = t.node,
                               !.else_branch = e.node], e.sc))))

ResolveWhile(s, sc) ==
    Bind(ResolveExpr(s.condition, sc),
         LAMBDA c :
    Bind(ResolveStmt(s.body, c.sc),
         LAMBDA b : Resolved([s EXCEPT !.condition = c.node, !.body = b.node], b.sc)))

\* declare and define each parameter in turn.
DeclareParams(sc, parameters) ==
    LET RECURSIVE Go(_, _)
        Go(i, s) == IF i > Len(parameters) THEN s
                    ELSE Go(i + 1, Define(Declare(s, parameters[i].name,
                                                  parameters[i].line),
                                          parameters[i].name))
    IN  Go(1, sc)

\* resolve_function
ResolveFunctionBody(fn_statement, fn_type, sc) ==
    Bind(ResolveAll(fn_statement.statements, 1,
                    DeclareParams(BeginScope(BeginFunction(sc, fn_type)),
                                  fn_statement.parameters),
                    TRUE),
         LAMBDA r : Resolved([fn_statement EXCEPT !.statements = r.node],
                             EndFunction(EndScope(r.sc))))

ResolveFunction(s, sc) ==
    ResolveFunctionBody(s, "Function", Define(Declare(sc, s.name, s.line), s.name))

\* A check that looks for an initializer among all the enclosing functions.
ReturnInsideInitializer(s, sc) ==
    IF /\ IsSome(s.maybe_expression)
       /\ \E i \in 1..Len(sc.function_types) : sc.function_types[i] = "Initializer"
    THEN PushError(sc, s.line, "Can't return a value from an initializer.")
    ELSE sc

\* The check made when the return has an expression.
ReturnInInitializer(s, sc) ==
    IF /\ IsSome(s.maybe_expression)
       /\ Len(sc.function_types) > 0
       /\ sc.function_types[Len(sc.function_types)] = "Initializer"
    THEN PushError(sc, s.line, "Can't return a value from an initializer.")
    ELSE sc

ReturnAtTopLevel(s, sc) ==
    IF Len(sc.function_types) = 0
    THEN PushError(sc, s.line, "Can't return from top-level code.")
    ELSE sc

ResolveReturn(s, sc) ==
    Bind(ResolveOption(s.maybe_expression, ReturnInInitializer(s, sc), FALSE),
         LAMBDA r : Resolved([s EXCEPT !.maybe_expression = r.node],
                             ReturnAtTopLevel(s, r.sc)))

\* The loop over self.methods.values_mut(); a HashMap's order is
\* unspecified, and the order chosen here only orders the errors.
ResolveMethod(methods, name, sc) ==
    ResolveFunctionBody(methods[name],
                        IF methods[name].name = "init" THEN "Initializer" ELSE "Method",
                        sc)

ResolveMethods(methods, todo, done, sc) ==
    IF todo = {} THEN Resolved(done, sc)
    ELSE Bind(CHOOSE n \in todo : TRUE,
              LAMBDA name :
         Bind(ResolveMethod(methods, name, sc),
              LAMBDA r : ResolveMethods(methods, todo \ {name},
                                        Insert(done, name, r.node), r.sc)))

\* A class statement that opens the scope of super and defines nothing in it.
ResolveSuperclassUndefined(s, sc) ==
    IF IsSome(s.maybe_superclass)
    THEN Bind(ResolveVariable(Unwrap(s.maybe_superclass), sc),
              LAMBDA sup : Resolved(Some(sup.node), BeginScope(sup.sc)))
    ELSE Resolved(None, sc)

\* The `if let Some(superclass)` of ClassStatement::resolve.
ResolveSuperclass(s, sc) ==
    IF IsSome(s.maybe_superclass)
    THEN Bind(ResolveVariable(Unwrap(s.maybe_superclass),
                  IF Unwrap(s.maybe_superclass).name = s.name
                  THEN PushError(sc, Unwrap(s.maybe_superclass).line,
                                 "A class can't inherit from itself.")
                  ELSE sc),
              LAMBDA sup : Resolved(Some(sup.node), Define(BeginScope(sup.sc), "super")))
    ELSE Resolved(None, sc)

\* A class statement that leaves the scope of super open.
EndSuperScopeOpen(s, sc) == sc

EndSuperScope(s, sc) == IF IsSome(s.maybe_superclass) THEN EndScope(sc) ELSE sc

ResolveClass(s, sc) ==
    Bind(ResolveSuperclass(s,
             Define(Declare(BeginClass(sc, IF IsSome(s.maybe_superclass)
                                           THEN "Subclass" ELSE "Class"),
                            s.name, s.line), s.name)),
         LAMBDA sup :
    Bind(ResolveMethods(s.methods, DOMAIN s.methods, EmptyMap,
                        Define(BeginScope(sup.sc), "this")),
         LAMBDA m :
            Resolved([s EXCEPT !.methods = m.node, !.maybe_superclass = sup.node],
                     EndClass(EndSuperScope(s, EndScope(m.sc))))))

ResolveStmt(s, sc) ==
    CASE s.kind = "PrintStatement" -> ResolveExprStmt(s, sc)
      [] s.kind = "ExpressionStatement" -> ResolveExprStmt(s, sc)
      [] s.kind = "VarStatement" -> ResolveVar(s, sc)
      [] s.kind = "BlockStatement" -> ResolveBlock(s, sc)
      [] s.kind = "IfStatement" -> ResolveIf(s, sc)
      [] s.kind = "WhileStatement" -> ResolveWhile(s, sc)
      [] s.kind = "FunctionStatement" -> ResolveFunction(s, sc)
      [] s.kind = "ReturnStatement" -> ResolveReturn(s, sc)
      [] s.kind = "ClassStatement" -> ResolveClass(s, sc)

\* resolve: Ok carries the resolved statements, Err the ResolverErrors.
Resolve(statements) ==
    Bind(ResolveStatements(statements, ScopesNew),
         LAMBDA r :
            IF Len(r.sc.errors) > 0
            THEN [tag |-> "Err",
                  val |-> [kind |-> "ResolverErrors", details |-> r.sc.errors]]
            ELSE [tag |-> "Ok", val |-> r.node])

(***************************************************************************)
(* The parser (parser.rs).  The Peekable iterator over the tokens is the   *)
(* token vector without its Eof and the index `pos` of the next token.  A  *)
(* parsing function takes the parser and returns Ok(node), Err(detail) or  *)
(* a panic together with the parser as the function left it.               *)
(***************************************************************************)
Token(ty, lexeme, literal, line) ==
    [ty |-> ty, lexeme |-> lexeme, literal |-> literal, line |-> line]

LiteralNumber(n) == [lit |-> "Number", v |-> n]

LiteralString(s) == [lit |-> "String", v |-> s]

MaxArguments == 255

MaxParameters == 255

ParserNew(tokens) ==
    [tokens |-> SubSeq(tokens, 1, Len(tokens) - 1),
     pos |-> 1,
     errors |-> <<>>,
     last_line |-> IF Len(tokens) >= 2 THEN tokens[Len(tokens) - 1].line ELSE 1]

POk(val, p) == [tag |-> "Ok", val |-> val, p |-> p]

PErr(line, message, p) == [tag |-> "Err", val |-> ErrorDetail(line, message), p |-> p]

PPanic(message, p) == [tag |-> "Panic", val |-> message, p |-> p]

\* self.tokens.peek() and self.tokens.next(); PeekIs and Advance together
\* are is_next_token_type and next_if.
Peek(p) == IF p.pos <= Len(p.tokens) THEN Some(p.tokens[p.pos]) ELSE None

PeekIs(p, tt) == IsSome(Peek(p)) /\ Unwrap(Peek(p)).ty = tt

Advance(p) == [p EXCEPT !.pos = @ + 1]

\* self.errors.push(ErrorDetail::new(line, message)).
ParserPush(p, detail) == [p EXCEPT !.errors = Append(@, detail)]

MatchTokenType(p, tt) ==
    IF PeekIs(p, tt) THEN [tok |-> Peek(p), p |-> Advance(p)]
    ELSE [tok |-> None, p |-> p]

MatchTokenTypes(p, tts) ==
    IF IsSome(Peek(p)) /\ Unwrap(Peek(p)).ty \in tts
    THEN [tok |-> Peek(p), p |-> Advance(p)]
    ELSE [tok |-> None, p |-> p]

\* format!("Expect '{token_ty}'."): the Display of a token type is the
\* name of the variant.
Consume(p, token_ty) ==
    IF IsSome(Peek(p))
    THEN IF Unwrap(Peek(p)).ty = token_ty
         THEN POk(Unwrap(Peek(p)), Advance(p))
         ELSE PErr(Unwrap(Peek(p)).line, "Expect '" \o token_ty \o "'.", p)
    ELSE PErr(p.last_line, "Expect '" \o token_ty \o "'.", p)

SynchronizeStops == {"Class", "Fun", "Var", "For", "If", "While", "Print", "Return"}

RECURSIVE Synchronize(_)
Synchronize(p) ==
    IF ~IsSome(Peek(p)) THEN p
    ELSE IF Unwrap(Peek(p)).ty = "Semicolon" THEN Advance(p)
    ELSE IF Unwrap(Peek(p)).ty \in SynchronizeStops THEN p
    ELSE Synchronize(Advance(p))

\* The arms of `match operator.ty` in equality, comparison, term, factor.
BinaryOperator(ty) ==
    CASE ty = "BangEqual" -> "NotEqual"
      [] ty = "EqualEqual" -> "Equal"
      [] ty = "Greater" -> "Greater"
      [] ty = "GreaterEqual" -> "GreaterOrEqual"
      [] ty = "Less" -> "Less"
      [] ty = "LessEqual" -> "LessOrEqual"
      [] ty = "Minus" -> "Substract"
      [] ty = "Plus" -> "Add"
      [] ty = "Star" -> "Multiply"
      [] ty = "Slash" -> "Divide"

\* The least k with 2^k >= n.
RECURSIVE Halvings(_)
Halvings(n) == IF n <= 1 THEN 0 ELSE 1 + Halvings((n + 1) \div 2)

RECURSIVE Declaration(_), Function(_), ParametersLoop(_, _), VarDeclaration(_)
RECURSIVE ArgumentsTurns(_, _, _), ParametersTurns(_, _, _)
RECURSIVE Statement(_), ReturnStatemen(_), ForStatement(_), WhileStatement_(_)
RECURSIVE IfStatement_(_), PrintStatement_(_), BlockStatement_(_), BlockLoop(_, _)
RECURSIVE ExpressionStatement_(_), Expression(_), Assignment(_)
RECURSIVE Or(_), OrLoop(_, _), And(_), AndLoop(_, _)
RECURSIVE Equality(_), EqualityLoop(_, _), Comparison(_), ComparisonLoop(_, _)
RECURSIVE Term(_), TermLoop(_, _), Factor(_), FactorLoop(_, _), Unary(_)
RECURSIVE FinishCall(_, _), ArgumentsLoop(_, _), ParserCall(_), CallLoop(_, _)
RECURSIVE Primary(_)

\* A primary that leaves the token it rejects in the input.
PrimaryPeeks(p) ==
    IF ~IsSome(Peek(p)) THEN PErr(p.last_line, "Expect expression.", p)
    ELSE Bind(Unwrap(Peek(p)),
              LAMBDA token :
         Bind(Advance(p),
              LAMBDA q :
            CASE token.ty = "Nil" -> POk(NilExpression, q)
              [] token.ty = "True" -> POk(LiteralExpression(Boolean(TRUE)), q)
              [] token.ty = "False" -> POk(LiteralExpression(Boolean(FALSE)), q)
              [] token.ty = "Number" ->
                    IF ~IsSome(token.literal) THEN PPanic("no literal value", q)
                    ELSE IF Unwrap(token.literal).lit = "Number"
                    THEN POk(LiteralExpression(Number(Unwrap(token.literal).v)), q)
                    ELSE PPanic("literal type mismatch", q)
              [] token.ty = "String" ->
                    IF ~IsSome(token.literal) THEN PPanic("no literal value", q)
                    ELSE IF Unwrap(token.literal).lit = "String"
                    THEN POk(LiteralExpression(String(Unwrap(token.literal).v)), q)
                    ELSE PPanic("literal type mismatch", q)
              [] token.ty = "LeftParen" ->
                    Try(Expression(q),
                        LAMBDA e :
                    Try(Consume(e.p, "RightParen"),
                        LAMBDA c : POk(GroupingExpression(e.val), c.p)))
              [] token.ty = "Identifier" ->
                    POk(VariableExpression(token.lexeme, token.line), q)
              [] OTHER -> PErr(token.line, "Expect expression.", p)))

Primary(p) ==
    IF ~IsSome(Peek(p)) THEN PErr(p.last_line, "Expect expression.", p)
    ELSE Bind(Unwrap(Peek(p)),
              LAMBDA token :
         Bind(Advance(p),
              LAMBDA q :
            CASE token.ty = "Nil" -> POk(NilExpression, q)
              [] token.ty = "True" -> POk(LiteralExpression(Boolean(TRUE)), q)
              [] token.ty = "False" -> POk(LiteralExpression(Boolean(FALSE)), q)
              [] token.ty = "Number" ->
                    IF ~IsSome(token.literal) THEN PPanic("no literal value", q)
                    ELSE IF Unwrap(token.literal).lit = "Number"
                    THEN POk(LiteralExpression(Number(Unwrap(token.literal).v)), q)
                    ELSE PPanic("literal type mismatch", q)
              [] token.ty = "String" ->
                    IF ~IsSome(token.literal) THEN PPanic("no literal value", q)
                    ELSE IF Unwrap(token.literal).lit = "String"
                    THEN POk(LiteralExpression(String(Unwrap(token.literal).v)), q)
                    ELSE PPanic("literal type mismatch", q)
              [] token.ty = "LeftParen" ->
                    Try(Expression(q),
                        LAMBDA e :
                    Try(Consume(e.p, "RightParen"),
                        LAMBDA c : POk(GroupingExpression(e.val), c.p)))
              [] token.ty = "Identifier" ->
                    POk(VariableExpression(token.lexeme, token.line), q)
              [] OTHER -> PErr(token.line, "Expect expression.", q)))

\* The loop of finish_call, lines 535 to 540.  One turn parses an argument
\* and looks for a comma; `more` says that the loop goes on.  Up to 2^k
\* turns are taken as two runs of up to 2^(k-1) turns, so that a long
\* argument list is parsed without a deep recursion.
ArgumentsTurns(k, arguments, p) ==
    IF k = 0
    THEN Try(Expression(p),
             LAMBDA e :
                IF PeekIs(e.p, "Comma")
                THEN [tag |-> "Ok", val |-> Append(arguments, e.val),
                      p |-> Advance(e.p), more |-> TRUE]
                ELSE [tag |-> "Ok", val |-> Append(arguments, e.val), p |-> e.p,
                      more |-> FALSE])
    ELSE Try(ArgumentsTurns(k - 1, arguments, p),
             LAMBDA h : IF h.more THEN ArgumentsTurns(k - 1, h.val, h.p) ELSE h)

ArgumentsLoop(arguments, p) == ArgumentsTurns(Halvings(Len(p.tokens)), arguments, p)

FinishCall(p, callee) ==
    Try(IF IsSome(Peek(p)) /\ ~PeekIs(p, "RightParen")
        THEN ArgumentsLoop(<<>>, p) ELSE POk(<<>>, p),
        LAMBDA arguments :
    Try(Consume(arguments.p, "RightParen"),
        LAMBDA paren :
            POk(CallExpression(callee, arguments.val, paren.val.line),
                IF Len(arguments.val) > MaxArguments
                THEN ParserPush(paren.p,
                         ErrorDetail(paren.val.line, "Can't have more than 255 arguments."))
                ELSE paren.p)))

\* The loop of call.
CallLoop(expr, p) ==
    IF PeekIs(p, "LeftParen")
    THEN Try(FinishCall(Advance(p), expr), LAMBDA r : CallLoop(r.val, r.p))
    ELSE POk(expr, p)

\* Parser::call.
ParserCall(p) == Try(Primary(p), LAMBDA r : CallLoop(r.val, r.p))

Unary(p) ==
    Bind(MatchTokenTypes(p, {"Bang", "Minus"}),
         LAMBDA m :
            IF IsSome(m.tok)
            THEN Try(Unary(m.p),
                     LAMBDA r :
                        POk(IF Unwrap(m.tok).ty = "Bang"
                            THEN NotExpression(r.val)
                            ELSE NegExpression(r.val, Unwrap(m.tok).line), r.p))
            ELSE ParserCall(p))

FactorLoop(expr, p) ==
    Bind(MatchTokenTypes(p, {"Star", "Slash"}),
         LAMBDA m :
            IF ~IsSome(m.tok) THEN POk(expr, p)
            ELSE Try(Unary(m.p),
                     LAMBDA r :
                        FactorLoop(BinaryExpression(expr, BinaryOperator(Unwrap(m.tok).ty),
                                                    r.val, Unwrap(m.tok).line), r.p)))

Factor(p) == Try(Unary(p), LAMBDA r : FactorLoop(r.val, r.p))

TermLoop(expr, p) ==
    Bind(MatchTokenTypes(p, {"Minus", "Plus"}),
         LAMBDA m :
            IF ~IsSome(m.tok) THEN POk(expr, p)
            ELSE Try(Factor(m.p),
                     LAMBDA r :
                        TermLoop(BinaryExpression(expr, BinaryOperator(Unwrap(m.tok).ty),
                                                  r.val, Unwrap(m.tok).line), r.p)))

Term(p) == Try(Factor(p), LAMBDA r : TermLoop(r.val, r.p))

ComparisonLoop(expr, p) ==
    Bind(MatchTokenTypes(p, {"Greater", "GreaterEqual", "Less", "LessEqual"}),
         LAMBDA m :
            IF ~IsSome(m.tok) THEN POk(expr, p)
            ELSE Try(Term(m.p),
                     LAMBDA r :
                        ComparisonLoop(
                            BinaryExpression(expr, BinaryOperator(Unwrap(m.tok).ty),
                                             r.val, Unwrap(m.tok).line), r.p)))

Comparison(p) == Try(Term(p), LAMBDA r : ComparisonLoop(r.val, r.p))

EqualityLoop(expr, p) ==
    Bind(MatchTokenTypes(p, {"BangEqual", "EqualEqual"}),
         LAMBDA m :
            IF ~IsSome(m.tok) THEN POk(expr, p)
            ELSE Try(Comparison(m.p),
                     LAMBDA r :
                        EqualityLoop(
                            BinaryExpression(expr, BinaryOperator(Unwrap(m.tok).ty),
                                             r.val, Unwrap(m.tok).line), r.p)))

Equality(p) == Try(Comparison(p), LAMBDA r : EqualityLoop(r.val, r.p))

AndLoop(expr, p) ==
    IF PeekIs(p, "And")
    THEN Try(Equality(Advance(p)),
             LAMBDA r : AndLoop(LogicalExpression(expr, "And", r.val), r.p))
    ELSE POk(expr, p)

And(p) == Try(Equality(p), LAMBDA r : AndLoop(r.val, r.p))

OrLoop(expr, p) ==
    IF PeekIs(p, "Or")
    THEN Try(And(Advance(p)),
             LAMBDA r : OrLoop(LogicalExpression(expr, "Or", r.val), r.p))
    ELSE POk(expr, p)

Or(p) == Try(And(p), LAMBDA r : OrLoop(r.val, r.p))

Assignment(p) ==
    Try(Or(p),
        LAMBDA expr :
    Bind(MatchTokenType(expr.p, "Equal"),
         LAMBDA m :
            IF ~IsSome(m.tok) THEN expr
            ELSE Try(Assignment(m.p),
                     LAMBDA value :
                        IF expr.val.kind = "VariableExpression"
                        THEN POk(AssignExpression(expr.val.name, value.val,
                                                  Unwrap(m.tok).line), value.p)
                        ELSE POk(expr.val,
                                 ParserPush(value.p,
                                     ErrorDetail(Unwrap(m.tok).line,
                                                 "Invalid assignment target."))))))

Expression(p) == Assignment(p)

ExpressionStatement_(p) ==
    Try(Expression(p),
        LAMBDA e :
    Try(Consume(e.p, "Semicolon"),
        LAMBDA semi : POk(ExpressionStatement(e.val), semi.p)))

\* The loop of block_statement.
BlockLoop(statements, p) ==
    IF IsSome(Peek(p)) /\ ~PeekIs(p, "RightBrace")
    THEN Try(Declaration(p), LAMBDA d : BlockLoop(Append(statements, d.val), d.p))
    ELSE POk(statements, p)

BlockStatement_(p) ==
    Try(BlockLoop(<<>>, p),
        LAMBDA statements :
    Try(Consume(statements.p, "RightBrace"),
        LAMBDA brace : POk(BlockStatement(statements.val), brace.p)))

PrintStatement_(p) ==
    Bind(Unwrap(Peek(p)),
         LAMBDA print_token :
    Try(Expression(Advance(p)),
        LAMBDA e :
    Try(Consume(e.p, "Semicolon"),
        LAMBDA semi : POk(PrintStatement(e.val, print_token.line), semi.p))))

IfStatement_(p) ==
    Try(Consume(p, "LeftParen"),
        LAMBDA lp :
    Try(Expression(lp.p),
        LAMBDA condition :
    Try(Consume(condition.p, "RightParen"),
        LAMBDA rp :
    Try(Statement(rp.p),
        LAMBDA then_branch :
    Try(IF PeekIs(then_branch.p, "Else")
        THEN Try(Statement(Advance(then_branch.p)),
                 LAMBDA e : POk(Some(e.val), e.p))
        ELSE POk(None, then_branch.p),
        LAMBDA else_branch :
            POk(IfStatement(condition.val, then_branch.val, else_branch.val),
                else_branch.p))))))

WhileStatement_(p) ==
    Try(Consume(p, "LeftParen"),
        LAMBDA lp :
    Try(Expression(lp.p),
        LAMBDA condition :
    Try(Consume(condition.p, "RightParen"),
        LAMBDA rp :
    Try(Statement(rp.p),
        LAMBDA body : POk(WhileStatement(condition.val, body.val), body.p)))))

\* for_statement, lines 227 to 233, 235 to 241 and 243 to 249.
ForInitializer(p) ==
    IF PeekIs(p, "Semicolon") THEN POk(None, Advance(p))
    ELSE IF PeekIs(p, "Var")
    THEN Try(VarDeclaration(p), LAMBDA s : POk(Some(s.val), s.p))
    ELSE Try(ExpressionStatement_(p), LAMBDA s : POk(Some(s.val), s.p))

ForCondition(p) ==
    IF PeekIs(p, "Semicolon") THEN POk(None, Advance(p))
    ELSE Try(Expression(p),
             LAMBDA e :
         Try(Consume(e.p, "Semicolon"), LAMBDA semi : POk(Some(e.val), semi.p)))

ForIncrement(p) ==
    IF PeekIs(p, "RightParen") THEN POk(None, Advance(p))
    ELSE Try(Expression(p),
             LAMBDA i :
         Try(Consume(i.p, "RightParen"), LAMBDA rp : POk(Some(i.val), rp.p)))

\* A for statement that runs the increment before the body.
ForDesugarIncrementFirst(opt_initializer, opt_for_condition, opt_increment, for_body) ==
    BlockStatement(
        (IF IsSome(opt_initializer) THEN << Unwrap(opt_initializer) >> ELSE <<>>)
        \o << WhileStatement(
                 IF IsSome(opt_for_condition) THEN Unwrap(opt_for_condition)
                 ELSE LiteralExpression(Boolean(TRUE)),
                 BlockStatement(
                     (IF IsSome(opt_increment)
                      THEN << ExpressionStatement(Unwrap(opt_increment)) >> ELSE <<>>)
                     \o << for_body >>)) >>)

\* for_statement, lines 253 to 281: the while loop the statement stands for.
ForDesugar(opt_initializer, opt_for_condition, opt_increment, for_body) ==
    BlockStatement(
        (IF IsSome(opt_initializer) THEN << Unwrap(opt_initializer) >> ELSE <<>>)
        \o << WhileStatement(
                 IF IsSome(opt_for_condition) THEN Unwrap(opt_for_condition)
                 ELSE LiteralExpression(Boolean(TRUE)),
                 BlockStatement(
                     << for_body >>
                     \o (IF IsSome(opt_increment)
                         THEN << ExpressionStatement(Unwrap(opt_increment)) >>
                         ELSE <<>>))) >>)

ForStatement(p) ==
    Try(Consume(p, "LeftParen"),
        LAMBDA lp :
    Try(ForInitializer(lp.p),
        LAMBDA opt_initializer :
    Try(ForCondition(opt_initializer.p),
        LAMBDA opt_for_condition :
    Try(ForIncrement(opt_for_condition.p),
        LAMBDA opt_increment :
    Try(Statement(opt_increment.p),
        LAMBDA for_body :
            POk(ForDesugar(opt_initializer.val, opt_for_condition.val,
                           opt_increment.val, for_body.val),
                for_body.p))))))

ReturnStatemen(p) ==
    Bind(Unwrap(Peek(p)),
         LAMBDA return_token :
    Try(IF IsSome(Peek(Advance(p))) /\ ~PeekIs(Advance(p), "Semicolon")
        THEN Try(Expression(Advance(p)), LAMBDA e : POk(Some(e.val), e.p))
        ELSE POk(None, Advance(p)),
        LAMBDA maybe_expression :
    Try(Consume(maybe_expression.p, "Semicolon"),
        LAMBDA semi :
            POk(ReturnStatement(maybe_expression.val, return_token.line), semi.p))))

\* self.tokens.peek().unwrap() panics when no token is left.
Statement(p) ==
    IF ~IsSome(Peek(p)) THEN PPanic("called Option::unwrap() on a None value", p)
    ELSE CASE PeekIs(p, "For") -> ForStatement(Advance(p))
           [] PeekIs(p, "If") -> IfStatement_(Advance(p))
           [] PeekIs(p, "LeftBrace") -> BlockStatement_(Advance(p))
           [] PeekIs(p, "Print") -> PrintStatement_(p)
           [] PeekIs(p, "Return") -> ReturnStatemen(p)
           [] PeekIs(p, "While") -> WhileStatement_(Advance(p))
           [] OTHER -> ExpressionStatement_(p)

VarDeclaration(p) ==
    Bind(Unwrap(Peek(p)),
         LAMBDA var_token :
    Try(Consume(Advance(p), "Identifier"),
        LAMBDA name :
    Try(IF PeekIs(name.p, "Equal")
        THEN Try(Expression(Advance(name.p)), LAMBDA e : POk(Some(e.val), e.p))
        ELSE POk(None, name.p),
        LAMBDA initializer :
    Try(Consume(initializer.p, "Semicolon"),
        LAMBDA semi :
            POk(VarStatement(name.val.lexeme, initializer.val, var_token.line),
                semi.p)))))

\* The loop of function, lines 131 to 140, taken like the loop of
\* finish_call.
ParametersTurns(k, parameters, p) ==
    IF k = 0
    THEN Try(Consume(p, "Identifier"),
             LAMBDA identifier :
                IF PeekIs(identifier.p, "Comma")
                THEN [tag |-> "Ok",
                      val |-> Append(parameters, Parameter(identifier.val.lexeme,
                                                           identifier.val.line)),
                      p |-> Advance(identifier.p), more |-> TRUE]
                ELSE [tag |-> "Ok",
                      val |-> Append(parameters, Parameter(identifier.val.lexeme,
                                                           identifier.val.line)),
                      p |-> identifier.p, more |-> FALSE])
    ELSE Try(ParametersTurns(k - 1, parameters, p),
             LAMBDA h : IF h.more THEN ParametersTurns(k - 1, h.val, h.p) ELSE h)

ParametersLoop(parameters, p) ==
    ParametersTurns(Halvings(Len(p.tokens)), parameters, p)

\* Parser::function(FunctionKind::Function), the only kind it is called with.
Function(p) ==
    Bind(Unwrap(Peek(p)),
         LAMBDA fun_token :
    Bind(MatchTokenType(Advance(p), "Identifier"),
         LAMBDA name :
            IF ~IsSome(name.tok)
            THEN PErr(fun_token.line, "Expect function name.", name.p)
            ELSE
    Try(Consume(name.p, "LeftParen"),
        LAMBDA lp :
    Try(IF IsSome(Peek(lp.p)) /\ ~PeekIs(lp.p, "RightParen")
        THEN ParametersLoop(<<>>, lp.p) ELSE POk(<<>>, lp.p),
        LAMBDA parameters :
    Try(Consume(parameters.p, "RightParen"),
        LAMBDA paren :
    Try(Consume(IF Len(parameters.val) > MaxParameters
                THEN ParserPush(paren.p,
                         ErrorDetail(paren.val.line,
                                     "Can't have more than 255 parameters."))
                ELSE paren.p, "LeftBrace"),
        LAMBDA brace :
    Try(BlockStatement_(brace.p),
        LAMBDA block :
            POk(FunctionStatement(Unwrap(name.tok).lexeme, parameters.val,
                                  block.val.statements, fun_token.line),
                block.p))))))))

Declaration(p) ==
    IF ~IsSome(Peek(p)) THEN PPanic("called Option::unwrap() on a None value", p)
    ELSE CASE PeekIs(p, "Var") -> VarDeclaration(p)
           [] PeekIs(p, "Fun") -> Function(p)
           [] OTHER -> Statement(p)

\* A turn of parse's loop that goes on after the token that failed.
ParseTurnNoSynchronize(p, statements) ==
    Bind(Declaration(p),
         LAMBDA r :
            IF r.tag = "Ok"
            THEN [tag |-> "Ok", p |-> r.p, statements |-> Append(statements, r.val)]
            ELSE IF r.tag = "Err"
            THEN [tag |-> "Ok", p |-> ParserPush(r.p, r.val),
                  statements |-> statements]
            ELSE [tag |-> "Panic", p |-> r.p, statements |-> statements, val |-> r.val])

\* One turn of the loop of parse, lines 43 to 51.
ParseTurn(p, statements) ==
    Bind(Declaration(p),
         LAMBDA r :
            IF r.tag = "Ok"
            THEN [tag |-> "Ok", p |-> r.p, statements |-> Append(statements, r.val)]
            ELSE IF r.tag = "Err"
            THEN [tag |-> "Ok", p |-> Synchronize(ParserPush(r.p, r.val)),
                  statements |-> statements]
            ELSE [tag |-> "Panic", p |-> r.p, statements |-> statements, val |-> r.val])

\* parse, lines 53 to 57.
ParseResult(p, statements) ==
    IF Len(p.errors) = 0
    THEN [tag |-> "Ok", val |-> statements]
    ELSE [tag |-> "Err", val |-> [kind |-> "SyntaxErrors", details |-> p.errors]]

RECURSIVE ParseLoop(_, _)
ParseLoop(p, statements) ==
    IF ~IsSome(Peek(p)) THEN ParseResult(p, statements)
    ELSE Bind(ParseTurn(p, statements),
              LAMBDA t :
                 IF t.tag = "Panic" THEN [tag |-> "Panic", val |-> t.val]
                 ELSE ParseLoop(t.p, t.statements))

\* Parser::new(&tokens).parse().
Parse(tokens) == ParseLoop(ParserNew(tokens), <<>>)

(***************************************************************************)
(* Sources.  A source text is given by its characters, which the scanner   *)
(* then scans, or by its tokens, which the parser then parses, or, with    *)
(* neither, by what the scanner and the parser report for it: the          *)
(* scanner's errors, the parser's errors, and the statements parsed when   *)
(* there are none.  `fam`, `a`, `b`, `c` name the text within its family.  *)
(***************************************************************************)
Source(fam, a, b, c, statements) ==
    [fam |-> fam, a |-> a, b |-> b, c |-> c, scanner_errors |-> <<>>,
     syntax_errors |-> <<>>, statements |-> statements, tokens |-> <<>>,
     text |-> ""]

TokenSource(fam, a, b, c, tokens) ==
    [fam |-> fam, a |-> a, b |-> b, c |-> c, scanner_errors |-> <<>>,
     syntax_errors |-> <<>>, statements |-> <<>>, tokens |-> tokens,
     text |-> ""]

TextSource(fam, a, b, c, text) ==
    [fam |-> fam, a |-> a, b |-> b, c |-> c, scanner_errors |-> <<>>,
     syntax_errors |-> <<>>, statements |-> <<>>, tokens |-> <<>>,
     text |-> text]

NoSource == Source("none", 0, 0, 0, <<>>)

\* Shorthands for the nodes of a one-line source.
Var(name) == VariableExpression(name, 1)

Num(i) == LiteralExpression(Number(F64(i)))

Str(s) == LiteralExpression(String(s))

Bool(b) == LiteralExpression(Boolean(b))

Bin(l, op, r) == BinaryExpression(l, op, r, 1)

CallE(callee, arguments) == CallExpression(callee, arguments, 1)

Assign(name, value) == ExpressionStatement(AssignExpression(name, value, 1))

Get(object, name) == GetExpression(object, name, 1)

SetS(object, name, value) == ExpressionStatement(SetExpression(object, name, value, 1))

PrintS(e) == PrintStatement(e, 1)

VarS(name, e) == VarStatement(name, Some(e), 1)

Fun(name, params, statements) ==
    FunctionStatement(name, [i \in 1..Len(params) |-> Parameter(params[i], 1)],
                      statements, 1)

Ret(e) == ReturnStatement(Some(e), 1)

ClassS(name, methods) == ClassStatement(name, methods, None, 1)

SubclassS(name, super, methods) == ClassStatement(name, methods, Some(Var(super)), 1)

\* name :> FunctionStatement, the entry of a class's method table.
Method(name, params, statements) == name :> Fun(name, params, statements)

(***************************************************************************)
(* The end-to-end scenarios of the specification (section 8, a to g), and  *)
(* a text the scanner rejects and one the parser rejects.                  *)
(***************************************************************************)
MaxCalls == 3

\* a) print 1 + 2 * 3;
ScenarioA == << PrintS(Bin(Num(1), "Add", Bin(Num(2), "Multiply", Num(3)))) >>

\* b) var a=1; { var a=2; print a; } print a;
ScenarioB ==
    << VarS("a", Num(1)),
       BlockStatement(<< VarS("a", Num(2)), PrintS(Var("a")) >>),
       PrintS(Var("a")) >>

\* c) fun mk() { var i=0; fun inc() { i = i+1; return i; } return inc; }
\*    var c = mk(); print c(); ... (k times)
ScenarioC(k) ==
    << Fun("mk", <<>>,
           << VarS("i", Num(0)),
              Fun("inc", <<>>, << Assign("i", Bin(Var("i"), "Add", Num(1))),
                                 Ret(Var("i")) >>),
              Ret(Var("inc")) >>),
       VarS("c", CallE(Var("mk"), <<>>)) >>
    \o [n \in 1..k |-> PrintS(CallE(Var("c"), <<>>))]

\* d) class A { greet() { print "hi"; } }
\*    class B < A { greet() { super.greet(); print "yo"; } }  B().greet();
ScenarioD ==
    << ClassS("A", Method("greet", <<>>, << PrintS(Str("hi")) >>)),
       SubclassS("B", "A",
           Method("greet", <<>>,
               << ExpressionStatement(CallE(SuperExpression("greet", 1), <<>>)),
                  PrintS(Str("yo")) >>)),
       ExpressionStatement(CallE(Get(CallE(Var("B"), <<>>), "greet"), <<>>)) >>

\* e) class P { init(x) { this.x = x; } } print P(7).x;
ScenarioE ==
    << ClassS("P", Method("init", <<"x">>,
                       << SetS(ThisExpression(1), "x", Var("x")) >>)),
       PrintS(Get(CallE(Var("P"), <<Num(7)>>), "x")) >>

\* f) { var a = a; }
ScenarioF == << BlockStatement(<< VarS("a", Var("a")) >>) >>

\* g) "a" - 1;
ScenarioG == << ExpressionStatement(Bin(Str("a"), "Substract", Num(1))) >>

\* print clock; print clock() >= 0;
ScenarioClock ==
    << PrintS(Var("clock")),
       PrintS(Bin(CallE(Var("clock"), <<>>), "GreaterOrEqual", Num(0))) >>

ScenarioSources ==
    << Source("scenario", 1, 0, 0, ScenarioA),
       Source("scenario", 2, 0, 0, ScenarioB),
       Source("scenario", 4, 0, 0, ScenarioD),
       Source("scenario", 5, 0, 0, ScenarioE),
       Source("scenario", 6, 0, 0, ScenarioF),
       Source("scenario", 7, 0, 0, ScenarioG),
       Source("scenario", 8, 0, 0, ScenarioClock),
       \* an unknown character: @
       [Source("scenario", 9, 0, 0, <<>>) EXCEPT
            !.scanner_errors = << ErrorDetail(1, "Unexpected character.") >>],
       \* a missing operand: print ;
       [Source("scenario", 10, 0, 0, <<>>) EXCEPT
            !.syntax_errors = << ErrorDetail(1, "Expect expression.") >>] >>
    \o [k \in 1..(MaxCalls + 1) |-> Source("scenario", 3, k - 1, 0, ScenarioC(k - 1))]

Block(stmts) == BlockStatement(stmts)

While(condition, body) == WhileStatement(condition, body)

If(condition, then_branch) == IfStatement(condition, then_branch, None)

Call0(name) == CallE(Var(name), <<>>)

ExprS(e) == ExpressionStatement(e)

\* Shorthands for the tokens of a source: the token of a lexeme, and the
\* tokens of a sequence of lexemes, where "\n" stands for a line break.
Punctuation ==
    [w \in {"(", ")", "{", "}", ",", ".", "-", "+", ";", "/", "*", "!", "!=", "=",
            "==", ">", ">=", "<", "<="} |->
        CASE w = "(" -> "LeftParen" [] w = ")" -> "RightParen"
          [] w = "{" -> "LeftBrace" [] w = "}" -> "RightBrace"
          [] w = "," -> "Comma" [] w = "." -> "Dot" [] w = "-" -> "Minus"
          [] w = "+" -> "Plus" [] w = ";" -> "Semicolon" [] w = "/" -> "Slash"
          [] w = "*" -> "Star" [] w = "!" -> "Bang" [] w = "!=" -> "BangEqual"
          [] w = "=" -> "Equal" [] w = "==" -> "EqualEqual" [] w = ">" -> "Greater"
          [] w = ">=" -> "GreaterEqual" [] w = "<" -> "Less" [] w = "<=" -> "LessEqual"]

Keywords ==
    [w \in {"and", "class", "else", "false", "fun", "for", "if", "nil", "or",
            "print", "return", "super", "this", "true", "var", "while"} |->
        CASE w = "and" -> "And" [] w = "class" -> "Class" [] w = "else" -> "Else"
          [] w = "false" -> "False" [] w = "fun" -> "Fun" [] w = "for" -> "For"
          [] w = "if" -> "If" [] w = "nil" -> "Nil" [] w = "or" -> "Or"
          [] w = "print" -> "Print" [] w = "return" -> "Return"
          [] w = "super" -> "Super" [] w = "this" -> "This" [] w = "true" -> "True"
          [] w = "var" -> "Var" [] w = "while" -> "While"]

Numerals == [w \in {"0", "1", "2", "3"} |->
                CASE w = "0" -> 0 [] w = "1" -> 1 [] w = "2" -> 2 [] w = "3" -> 3]

Word(w, line) ==
    IF w \in DOMAIN Punctuation THEN Token(Punctuation[w], w, None, line)
    ELSE IF w \in DOMAIN Keywords THEN Token(Keywords[w], w, None, line)
    ELSE IF w \in DOMAIN Numerals
    THEN Token("Number", w, Some(LiteralNumber(F64(Numerals[w]))), line)
    ELSE Token("Identifier", w, None, line)

LineOf(words, i) == 1 + Cardinality({j \in 1..i : words[j] = "\n"})

Tokens(words) ==
    LET at == SelectSeq([i \in 1..Len(words) |-> i], LAMBDA i : words[i] # "\n")
    IN  [k \in 1..Len(at) |-> Word(words[at[k]], LineOf(words, at[k]))]
        \o << Token("Eof", "", None, LineOf(words, Len(words))) >>

(***************************************************************************)
(* The scanner (scanner.rs).  A source text is a string; its characters    *)
(* are its substrings of length one.  `chars` is itertools' MultiPeek over *)
(* the characters: `pos` is the next character, `index` is how many        *)
(* characters peek has looked at since the last next or reset_peek, so a   *)
(* peek after a peek looks one character further.                          *)
(***************************************************************************)
CharAt(text, i) == SubSeq(text, i, i)

IsAsciiDigit(c) == c \in {"0", "1", "2", "3", "4", "5", "6", "7", "8", "9"}

IsAsciiAlphabetic(c) ==
    c \in {"a", "b", "c", "d", "e", "f", "g", "h", "i", "j", "k", "l", "m", "n",
           "o", "p", "q", "r", "s", "t", "u", "v", "w", "x", "y", "z", "A", "B",
           "C", "D", "E", "F", "G", "H", "I", "J", "K", "L", "M", "N", "O", "P",
           "Q", "R", "S", "T", "U", "V", "W", "X", "Y", "Z"}

IsAsciiAlphanumeric(c) == IsAsciiAlphabetic(c) \/ IsAsciiDigit(c)

\* source.chars().multipeek()
MultiPeek(text) == [text |-> text, pos |-> 1, index |-> 0]

\* chars.peek(): the character `index` places after the next one; the
\* index moves on only when there is such a character.
CharsPeek(chars) ==
    IF chars.pos + chars.index <= Len(chars.text)
    THEN [val |-> Some(CharAt(chars.text, chars.pos + chars.index)),
          chars |-> [chars EXCEPT !.index = @ + 1]]
    ELSE [val |-> None, chars |-> chars]

\* chars.next()
CharsNext(chars) ==
    IF chars.pos <= Len(chars.text)
    THEN [val |-> Some(CharAt(chars.text, chars.pos)),
          chars |-> [chars EXCEPT !.pos = @ + 1, !.index = 0]]
    ELSE [val |-> None, chars |-> [chars EXCEPT !.index = 0]]

\* chars.reset_peek()
ResetPeek(chars) == [chars EXCEPT !.index = 0]

\* while chars.peek().is_some_and(P) { chars.next() }: the characters
\* taken, and the iterator after the peek that ended the loop.  After the
\* first next every peek looks at the next character.
TakeWhile(chars, P(_)) ==
    Bind(CharsPeek(chars),
         LAMBDA first :
            IF ~(IsSome(first.val) /\ P(Unwrap(first.val)))
            THEN [taken |-> "", chars |-> first.chars]
            ELSE Bind({i \in (chars.pos + 1)..Len(chars.text) : ~P(CharAt(chars.text, i))},
                      LAMBDA stops :
                 Bind(IF stops = {} THEN Len(chars.text) + 1
                      ELSE CHOOSE i \in stops : \A j \in stops : i <= j,
                      LAMBDA q :
                        [taken |-> SubSeq(chars.text, chars.pos, q - 1),
                         chars |-> [chars EXCEPT
                                      !.pos = q,
                                      !.index = IF q <= Len(chars.text) THEN 1 ELSE 0]])))

\* The scanner's locals: chars, tokens, errors, line; `stop` is the break
\* out of its loop.
ScannerNew(text) ==
    [chars |-> MultiPeek(text), tokens |-> <<>>, errors |-> <<>>, line |-> 1,
     stop |-> FALSE]

\* tokens.push(Token::new(ty, lexeme, literal, line))
AddToken(s, ty, lexeme, literal) ==
    [s EXCEPT !.tokens = Append(@, Token(ty, lexeme, literal, s.line))]

\* The arms of '!', '=', '<' and '>', lines 52 to 83.
TwoCharToken(s, c, one, two) ==
    Bind(CharsPeek(s.chars),
         LAMBDA pk :
            IF pk.val = Some("=")
            THEN AddToken([s EXCEPT !.chars = CharsNext(pk.chars).chars],
                          two, c \o "=", None)
            ELSE AddToken([s EXCEPT !.chars = pk.chars], one, c, None))

\* The arm of '/', lines 85 to 98.
SlashOrComment(s, c) ==
    Bind(CharsPeek(s.chars),
         LAMBDA pk :
            IF pk.val = Some("/")
            THEN [s EXCEPT !.chars = TakeWhile(CharsNext(pk.chars).chars,
                                               LAMBDA ch : ch # "\n").chars]
            ELSE AddToken([s EXCEPT !.chars = pk.chars], "Slash", c, None))

LineBreaks(text) == Cardinality({i \in 1..Len(text) : CharAt(text, i) = "\n"})

\* The arm of '"', lines 101 to 126.
StringLiteral(s) ==
    Bind(TakeWhile(s.chars, LAMBDA ch : ch # "\""),
         LAMBDA w :
    Bind(CharsPeek(w.chars),
         LAMBDA pk :
    Bind(s.line + LineBreaks(w.taken),
         LAMBDA line :
            IF ~IsSome(pk.val)
            THEN [s EXCEPT !.chars = pk.chars, !.line = line,
                           !.errors = Append(@, ErrorDetail(line, "Unterminated string.")),
                           !.stop = TRUE]
            ELSE AddToken([s EXCEPT !.chars = CharsNext(pk.chars).chars,
                                    !.line = line],
                          "String", w.taken, Some(LiteralString(w.taken))))))

DigitValue(c) ==
    CASE c = "0" -> 0 [] c = "1" -> 1 [] c = "2" -> 2 [] c = "3" -> 3
      [] c = "4" -> 4 [] c = "5" -> 5 [] c = "6" -> 6 [] c = "7" -> 7
      [] c = "8" -> 8 [] c = "9" -> 9

RECURSIVE Decimal(_)
Decimal(digits) ==
    IF Len(digits) = 0 THEN 0
    ELSE 10 * Decimal(SubSeq(digits, 1, Len(digits) - 1))
         + DigitValue(CharAt(digits, Len(digits)))

RECURSIVE PowerOfTen(_)
PowerOfTen(n) == IF n = 0 THEN 1 ELSE 10 * PowerOfTen(n - 1)

\* num_string.parse::<f64>() of digits with an optional fraction; it has no
\* error on such a string.
ParseF64(num_string) ==
    Bind({i \in 1..Len(num_string) : CharAt(num_string, i) = "."},
         LAMBDA dots :
            IF dots = {} THEN F64(Decimal(num_string))
            ELSE Bind(CHOOSE i \in dots : TRUE,
                      LAMBDA dot :
                        Fin(FALSE,
                            Decimal(SubSeq(num_string, 1, dot - 1)
                                    \o SubSeq(num_string, dot + 1, Len(num_string))),
                            PowerOfTen(Len(num_string) - dot))))

\* The number arm, lines 128 to 163.
NumberLiteral(s, c) ==
    Bind(TakeWhile(s.chars, IsAsciiDigit),
         LAMBDA whole :
    Bind(CharsPeek(ResetPeek(whole.chars)),
         LAMBDA maybe_dot :
    Bind(CharsPeek(maybe_dot.chars),
         LAMBDA maybe_digit :
    Bind(IF /\ maybe_dot.val = Some(".")
            /\ IsSome(maybe_digit.val)
            /\ IsAsciiDigit(Unwrap(maybe_digit.val))
         THEN Bind(TakeWhile(CharsNext(maybe_digit.chars).chars, IsAsciiDigit),
                   LAMBDA fraction :
                      [taken |-> c \o whole.taken \o "." \o fraction.taken,
                       chars |-> fraction.chars])
         ELSE [taken |-> c \o whole.taken, chars |-> maybe_digit.chars],
         LAMBDA num :
            AddToken([s EXCEPT !.chars = num.chars], "Number", num.taken,
                     Some(LiteralNumber(ParseF64(num.taken))))))))

\* The identifier arm, lines 164 to 178.
IdentifierOrKeyword(s, c) ==
    Bind(TakeWhile(s.chars, LAMBDA pc_ : IsAsciiAlphanumeric(pc_) \/ pc_ = "_"),
         LAMBDA rest :
    Bind(c \o rest.taken,
         LAMBDA identifier_string :
            AddToken([s EXCEPT !.chars = rest.chars],
                     IF identifier_string \in DOMAIN Keywords
                     THEN Keywords[identifier_string] ELSE "Identifier",
                     identifier_string, None)))

\* The match of scan_tokens on the character c, lines 39 to 186.
ScanChar(s, c) ==
    CASE c \in {"(", ")", "{", "}", ",", ".", "-", "+", ";", "*"} ->
            AddToken(s, Punctuation[c], c, None)
      [] c = "!" -> TwoCharToken(s, c, "Bang", "BangEqual")
      [] c = "=" -> TwoCharToken(s, c, "Equal", "EqualEqual")
      [] c = "<" -> TwoCharToken(s, c, "Less", "LessEqual")
      [] c = ">" -> TwoCharToken(s, c, "Greater", "GreaterEqual")
      [] c = "/" -> SlashOrComment(s, c)
      [] c \in {" ", "\r", "\t"} -> s
      [] c = "\n" -> [s EXCEPT !.line = @ + 1]
      [] c = "\"" -> StringLiteral(s)
      [] IsAsciiDigit(c) -> NumberLiteral(s, c)
      [] IsAsciiAlphabetic(c) \/ c = "_" -> IdentifierOrKeyword(s, c)
      [] OTHER ->
            [s EXCEPT !.errors =
                Append(@, ErrorDetail(s.line, "Unexpected character: " \o c \o "."))]

\* while let Some(c) = chars.next(): up to 2^k turns of the loop, taken as
\* two runs of up to 2^(k-1) turns.
RECURSIVE ScanTurns(_, _)
ScanTurns(k, s) ==
    IF s.stop \/ s.chars.pos > Len(s.chars.text) THEN s
    ELSE IF k = 0
    THEN Bind(CharsNext(s.chars),
              LAMBDA nx : ScanChar([s EXCEPT !.chars = nx.chars], Unwrap(nx.val)))
    ELSE Bind(ScanTurns(k - 1, s), LAMBDA h : ScanTurns(k - 1, h))

\* scan_tokens, lines 188 to 194, after its loop.
ScanResult(s) ==
    IF s.errors = <<>>
    THEN [tag |-> "Ok", val |-> Append(s.tokens, Token("Eof", "", None, s.line))]
    ELSE [tag |-> "Err", val |-> [kind |-> "ScannerErrors", details |-> s.errors]]

ScanTokens(text) == ScanResult(ScanTurns(Halvings(Len(text)), ScannerNew(text)))

(***************************************************************************)
(* Programs the resolver accepts, with names bound at several depths.      *)
(***************************************************************************)
\* { var a = 1; { var b = 2; { var c = 3; { a = a + b + c; print a; } } } }
ResolvedNested ==
    << Block(<< VarS("a", Num(1)),
         Block(<< VarS("b", Num(2)),
           Block(<< VarS("c", Num(3)),
             Block(<< Assign("a", Bin(Bin(Var("a"), "Add", Var("b")), "Add", Var("c"))),
                      PrintS(Var("a")) >>) >>) >>) >>) >>

\* fun outer() { var x = 1;
\*   fun mid() { var y = 2; fun inner() { x = x + y; return x; } return inner; }
\*   return mid; }
\* var f = outer()(); print f(); print f();
ResolvedClosures ==
    << Fun("outer", <<>>,
         << VarS("x", Num(1)),
            Fun("mid", <<>>,
              << VarS("y", Num(2)),
                 Fun("inner", <<>>,
                   << Assign("x", Bin(Var("x"), "Add", Var("y"))), Ret(Var("x")) >>),
                 Ret(Var("inner")) >>),
            Ret(Var("mid")) >>),
       VarS("f", CallE(Call0("outer"), <<>>)),
       PrintS(Call0("f")),
       PrintS(Call0("f")) >>

\* { var g = "g";
\*   class A { name() { return "A"; } }
\*   class B < A { name() { fun h() { return this.tag + super.name() + g; }
\*                          return h(); } }
\*   var b = B(); b.tag = "t"; print b.name(); }
ResolvedClasses ==
    << Block(<< VarS("g", Str("g")),
         ClassS("A", Method("name", <<>>, << Ret(Str("A")) >>)),
         SubclassS("B", "A",
           Method("name", <<>>,
             << Fun("h", <<>>,
                  << Ret(Bin(Bin(Get(ThisExpression(1), "tag"), "Add",
                                 CallE(SuperExpression("name", 1), <<>>)),
                             "Add", Var("g"))) >>),
                Ret(Call0("h")) >>)),
         VarS("b", Call0("B")),
         SetS(Var("b"), "tag", Str("t")),
         PrintS(CallE(Get(Var("b"), "name"), <<>>)) >>) >>

\* fun fib(n) { if (n < 2) { return n; } return fib(n - 1) + fib(n - 2); }
\* var i = 0; while (i < 3) { print fib(i); i = i + 1; }
ResolvedRecursion ==
    << Fun("fib", <<"n">>,
         << If(Bin(Var("n"), "Less", Num(2)), Block(<< Ret(Var("n")) >>)),
            Ret(Bin(CallE(Var("fib"), << Bin(Var("n"), "Substract", Num(1)) >>), "Add",
                    CallE(Var("fib"), << Bin(Var("n"), "Substract", Num(2)) >>))) >>),
       VarS("i", Num(0)),
       While(Bin(Var("i"), "Less", Num(3)),
             Block(<< PrintS(CallE(Var("fib"), << Var("i") >>)),
                      Assign("i", Bin(Var("i"), "Add", Num(1))) >>)) >>

\* for (var i = 0; i < 2; i = i + 1) { fun f() { return i; } print f(); }
\* as the parser desugars it: { var i = 0; while (i < 2) { {..} i = i + 1; } }
ResolvedFor ==
    << Block(<< VarS("i", Num(0)),
         While(Bin(Var("i"), "Less", Num(2)),
           Block(<< Block(<< Fun("f", <<>>, << Ret(Var("i")) >>),
                             PrintS(Call0("f")) >>),
                    Assign("i", Bin(Var("i"), "Add", Num(1))) >>)) >>) >>

\* fun f() { return later; } var later = 1; print f(); { print nope; }
ResolvedGlobals ==
    << Fun("f", <<>>, << Ret(Var("later")) >>),
       VarS("later", Num(1)),
       PrintS(Call0("f")),
       Block(<< PrintS(Var("nope")) >>) >>

ResolvedSources ==
    << Source("resolved", 1, 0, 0, ResolvedNested),
       Source("resolved", 2, 0, 0, ResolvedClosures),
       Source("resolved", 3, 0, 0, ResolvedClasses),
       Source("resolved", 4, 0, 0, ResolvedRecursion),
       Source("resolved", 5, 0, 0, ResolvedFor),
       Source("resolved", 6, 0, 0, ResolvedGlobals) >>

(***************************************************************************)
(* Closures.                                                               *)
(***************************************************************************)
MaxVal == 2

\* fun mk() { ... }  var c1 = mk(); var c2 = mk(); print c1(); print c1();
\* print c2();
ClosureTwoCounters ==
    << ScenarioC(0)[1],
       VarS("c1", Call0("mk")),
       VarS("c2", Call0("mk")),
       PrintS(Call0("c1")),
       PrintS(Call0("c1")),
       PrintS(Call0("c2")) >>

\* var get; var set;
\* { var x = 0; fun g() { return x; } fun s(v) { x = v; } get = g; set = s;
\*   x = 1; print get(); set(v); print x; }
\* set(w); print get();
ClosureShared(v, w) ==
    << VarStatement("get", None, 1),
       VarStatement("set", None, 1),
       Block(<< VarS("x", Num(0)),
                Fun("g", <<>>, << Ret(Var("x")) >>),
                Fun("s", <<"v">>, << Assign("x", Var("v")) >>),
                Assign("get", Var("g")),
                Assign("set", Var("s")),
                Assign("x", Num(1)),
                PrintS(Call0("get")),
                ExprS(CallE(Var("set"), << Num(v) >>)),
                PrintS(Var("x")) >>),
       ExprS(CallE(Var("set"), << Num(w) >>)),
       PrintS(Call0("get")) >>

\* { var x = 1; { var x = 2; fun f() { return x; } x = 3; print f(); }
\*   print x; }
ClosureInnermost ==
    << Block(<< VarS("x", Num(1)),
                Block(<< VarS("x", Num(2)),
                         Fun("f", <<>>, << Ret(Var("x")) >>),
                         Assign("x", Num(3)),
                         PrintS(Call0("f")) >>),
                PrintS(Var("x")) >>) >>

ClosureSources ==
    << Source("closure", 2, 0, 0, ClosureTwoCounters),
       Source("closure", 4, 0, 0, ClosureInnermost) >>
    \o [k \in 1..(MaxCalls + 1) |-> Source("closure", 1, k - 1, 0, ScenarioC(k - 1))]
    \o [i \in 1..((MaxVal + 1) * (MaxVal + 1)) |->
            Source("closure", 3, (i - 1) \div (MaxVal + 1), (i - 1) % (MaxVal + 1),
                   ClosureShared((i - 1) \div (MaxVal + 1), (i - 1) % (MaxVal + 1)))]

(***************************************************************************)
(* Calls with n parameters and m arguments.                                *)
(***************************************************************************)
MaxArity == 2

Params(n) == [i \in 1..n |-> "p" \o ToString(i)]

Args(m) == [i \in 1..m |-> Num(0)]

\* var g = 0; fun f(p1, .., pn) { print "body"; g = 1; }
\* print "before"; f(0, .., 0); print "after";
ArityFunction(n, m) ==
    << VarS("g", Num(0)),
       Fun("f", Params(n), << PrintS(Str("body")), Assign("g", Num(1)) >>),
       PrintS(Str("before")),
       ExprS(CallE(Var("f"), Args(m))),
       PrintS(Str("after")) >>

\* var g = 0; class K { m(p1, .., pn) { print "body"; g = 1; this.f = 1; } }
\* var o = K(); print "before"; o.m(0, .., 0); print "after";
ArityMethod(n, m) ==
    << VarS("g", Num(0)),
       ClassS("K", Method("m", Params(n),
                       << PrintS(Str("body")), Assign("g", Num(1)),
                          SetS(ThisExpression(1), "f", Num(1)) >>)),
       VarS("o", Call0("K")),
       PrintS(Str("before")),
       ExprS(CallE(Get(Var("o"), "m"), Args(m))),
       PrintS(Str("after")) >>

\* print "before"; clock(0, .., 0); print "after";
ArityClock(m) ==
    << PrintS(Str("before")),
       ExprS(CallE(Var("clock"), Args(m))),
       PrintS(Str("after")) >>

AritySources ==
    [i \in 1..((MaxArity + 1) * (MaxArity + 1)) |->
        Source("arity", (i - 1) \div (MaxArity + 1), (i - 1) % (MaxArity + 1), 0,
               ArityFunction((i - 1) \div (MaxArity + 1), (i - 1) % (MaxArity + 1)))]
    \o [i \in 1..((MaxArity + 1) * (MaxArity + 1)) |->
        Source("arity", (i - 1) \div (MaxArity + 1), (i - 1) % (MaxArity + 1), 1,
               ArityMethod((i - 1) \div (MaxArity + 1), (i - 1) % (MaxArity + 1)))]
    \o [m \in 1..(MaxArity + 1) |-> Source("arity", 0, m - 1, 2, ArityClock(m - 1))]

(***************************************************************************)
(* Initializers, and functions named init that are not methods.            *)
(***************************************************************************)
\* The body of init: empty; return; this.f = 1; if (true) { return; }
\* this.f = 2; and, with a parameter x, this.x = x;
InitBody(a) ==
    CASE a = 0 -> <<>>
      [] a = 1 -> << ReturnStatement(None, 1) >>
      [] a = 2 -> << SetS(ThisExpression(1), "f", Num(1)),
                     If(Bool(TRUE), Block(<< ReturnStatement(None, 1) >>)),
                     SetS(ThisExpression(1), "f", Num(2)) >>
      [] a = 3 -> << SetS(ThisExpression(1), "x", Var("x")) >>

InitArgs(a) == IF a = 3 THEN << Num(5) >> ELSE <<>>

\* class K { init(..) { body } } var o = K(..); and then one of
\*   var r = o.init(..);    var m = o.init; var r = m(..);    var r = K(..);
InitMethod(a, b) ==
    << ClassS("K", Method("init", IF a = 3 THEN <<"x">> ELSE <<>>, InitBody(a))),
       VarS("o", CallE(Var("K"), InitArgs(a))) >>
    \o CASE b = 0 -> << VarS("r", CallE(Get(Var("o"), "init"), InitArgs(a))) >>
         [] b = 1 -> << VarS("m", Get(Var("o"), "init")),
                        VarS("r", CallE(Var("m"), InitArgs(a))) >>
         [] b = 2 -> << VarS("r", CallE(Var("K"), InitArgs(a))) >>

\* fun init() { return 7; } var r = init();
InitFunction == << Fun("init", <<>>, << Ret(Num(7)) >>), VarS("r", Call0("init")) >>

\* fun init() { } var r = init();
InitFunctionVoid == << Fun("init", <<>>, <<>>), VarS("r", Call0("init")) >>

\* class K {} fun init() { return 7; } var o = K(); o.init = init;
\* var r = o.init();
InitField ==
    << ClassS("K", EmptyMap),
       Fun("init", <<>>, << Ret(Num(7)) >>),
       VarS("o", Call0("K")),
       SetS(Var("o"), "init", Var("init")),
       VarS("r", CallE(Get(Var("o"), "init"), <<>>)) >>

\* class K { m() { fun init() { return 7; } return init(); } }
\* var o = K(); var r = o.m();
InitNested ==
    << ClassS("K", Method("m", <<>>, << Fun("init", <<>>, << Ret(Num(7)) >>),
                                        Ret(Call0("init")) >>)),
       VarS("o", Call0("K")),
       VarS("r", CallE(Get(Var("o"), "m"), <<>>)) >>

InitSources ==
    [i \in 1..12 |-> Source("init", (i - 1) \div 3, (i - 1) % 3, 0,
                            InitMethod((i - 1) \div 3, (i - 1) % 3))]
    \o << Source("init", 4, 0, 0, InitFunction),
          Source("init", 5, 0, 0, InitFunctionVoid),
          Source("init", 6, 0, 0, InitField),
          Source("init", 7, 0, 0, InitNested) >>

(***************************************************************************)
(* Equality: var r = X == Y; var n = X != Y; for operands X and Y.         *)
(***************************************************************************)
\* The declarations the operands need, in the order the program makes them.
EqDeclarations ==
    << [id |-> 1, s |-> Fun("f", <<>>, <<>>)],
       [id |-> 2, s |-> ClassS("A", EmptyMap)],
       [id |-> 3, s |-> ClassS("B", EmptyMap)],
       [id |-> 4, s |-> VarS("i", Call0("A"))],
       [id |-> 5, s |-> VarS("j", Call0("A"))],
       [id |-> 6, s |-> VarS("k", Var("i"))],
       [id |-> 7, s |-> VarS("nan", Bin(Num(0), "Divide", Num(0)))] >>

\* An operand: its expression, the declarations it needs, and `key`, which
\* two operands share exactly when they denote the same value or object.
EqOperands ==
    << [e |-> Num(0), needs |-> {}, key |-> "0"],
       [e |-> Num(1), needs |-> {}, key |-> "1"],
       [e |-> NegExpression(Num(0), 1), needs |-> {}, key |-> "0"],
       [e |-> Str("a"), needs |-> {}, key |-> "a"],
       [e |-> Str("b"), needs |-> {}, key |-> "b"],
       [e |-> Bool(TRUE), needs |-> {}, key |-> "true"],
       [e |-> Bool(FALSE), needs |-> {}, key |-> "false"],
       [e |-> NilExpression, needs |-> {}, key |-> "nil"],
       [e |-> Var("f"), needs |-> {1}, key |-> "f"],
       [e |-> Var("clock"), needs |-> {}, key |-> "clock"],
       [e |-> Var("A"), needs |-> {2}, key |-> "A"],
       [e |-> Var("B"), needs |-> {3}, key |-> "B"],
       [e |-> Var("i"), needs |-> {2, 4}, key |-> "i"],
       [e |-> Var("j"), needs |-> {2, 5}, key |-> "j"],
       [e |-> Var("k"), needs |-> {2, 4, 6}, key |-> "i"],
       [e |-> Var("nan"), needs |-> {7}, key |-> "nan"] >>

EqProgram(a, b) ==
    LET Needed(d) == d.id \in EqOperands[a].needs \cup EqOperands[b].needs
        decls == SelectSeq(EqDeclarations, Needed)
    IN  [n \in 1..Len(decls) |-> decls[n].s]
        \o << VarS("r", Bin(EqOperands[a].e, "Equal", EqOperands[b].e)),
              VarS("n", Bin(EqOperands[a].e, "NotEqual", EqOperands[b].e)) >>

EqSources ==
    [i \in 1..(Len(EqOperands) * Len(EqOperands)) |->
        Source("eq", ((i - 1) \div Len(EqOperands)) + 1, ((i - 1) % Len(EqOperands)) + 1,
               0, EqProgram(((i - 1) \div Len(EqOperands)) + 1,
                            ((i - 1) % Len(EqOperands)) + 1))]

(***************************************************************************)
(* and / or:  fun L() { print "L"; return lv; }  fun R() { print "R";      *)
(* return rv; }  var r = L() op R();                                       *)
(***************************************************************************)
LogicalValues ==
    << NilExpression, Bool(FALSE), Bool(TRUE), Num(0), Str(""), Str("s") >>

LogicalProgram(l, r, operator) ==
    << Fun("L", <<>>, << PrintS(Str("L")), Ret(LogicalValues[l]) >>),
       Fun("R", <<>>, << PrintS(Str("R")), Ret(LogicalValues[r]) >>),
       VarS("r", LogicalExpression(Call0("L"), operator, Call0("R"))) >>

LogicalSources ==
    [i \in 1..(Len(LogicalValues) * Len(LogicalValues)) |->
        Source("logical", ((i - 1) \div Len(LogicalValues)) + 1,
               ((i - 1) % Len(LogicalValues)) + 1, 0,
               LogicalProgram(((i - 1) \div Len(LogicalValues)) + 1,
                              ((i - 1) % Len(LogicalValues)) + 1, "And"))]
    \o [i \in 1..(Len(LogicalValues) * Len(LogicalValues)) |->
        Source("logical", ((i - 1) \div Len(LogicalValues)) + 1,
               ((i - 1) % Len(LogicalValues)) + 1, 1,
               LogicalProgram(((i - 1) \div Len(LogicalValues)) + 1,
                              ((i - 1) % Len(LogicalValues)) + 1, "Or"))]

(***************************************************************************)
(* Programs that raise a runtime error after some output and assignments.  *)
(***************************************************************************)
\* var a = 0; print "x"; a = 1; "a" - 1; print "w"; a = 5;
ErrorTopLevel ==
    << VarS("a", Num(0)), PrintS(Str("x")), Assign("a", Num(1)),
       ExprS(Bin(Str("a"), "Substract", Num(1))),
       PrintS(Str("w")), Assign("a", Num(5)) >>

\* var a = 0;
\* fun f() { print "in"; a = a + 1; if (a == 2) { nil(); } print "out";
\*           return a; }
\* while (a < 3) { print f(); }  print "never";
ErrorNested ==
    << VarS("a", Num(0)),
       Fun("f", <<>>,
         << PrintS(Str("in")),
            Assign("a", Bin(Var("a"), "Add", Num(1))),
            If(Bin(Var("a"), "Equal", Num(2)),
               Block(<< ExprS(CallE(NilExpression, <<>>)) >>)),
            PrintS(Str("out")),
            Ret(Var("a")) >>),
       While(Bin(Var("a"), "Less", Num(3)), Block(<< PrintS(Call0("f")) >>)),
       PrintS(Str("never")) >>

\* class K { init() { this.f = 1; print "i"; print undefinedvar;
\*                    this.f = 2; } }
\* var o = 0; o = K(); print "after";
ErrorInInit ==
    << ClassS("K", Method("init", <<>>,
                     << SetS(ThisExpression(1), "f", Num(1)),
                        PrintS(Str("i")),
                        PrintS(Var("undefinedvar")),
                        SetS(ThisExpression(1), "f", Num(2)) >>)),
       VarS("o", Num(0)),
       Assign("o", Call0("K")),
       PrintS(Str("after")) >>

\* fun id(x) { print x; return x; }  fun g(a, b, c) { print "body"; }
\* g(id(1), -"s", id(3));  print "after";
ErrorInArgument ==
    << Fun("id", <<"x">>, << PrintS(Var("x")), Ret(Var("x")) >>),
       Fun("g", <<"a", "b", "c">>, << PrintS(Str("body")) >>),
       ExprS(CallE(Var("g"), << CallE(Var("id"), << Num(1) >>),
                                NegExpression(Str("s"), 1),
                                CallE(Var("id"), << Num(3) >>) >>)),
       PrintS(Str("after")) >>

\* var s = "str"; print "x"; print s.len; print "after";
ErrorProperty ==
    << VarS("s", Str("str")), PrintS(Str("x")), PrintS(Get(Var("s"), "len")),
       PrintS(Str("after")) >>

\* print "x"; if (1 < "a") print "t"; else print "e";  print "after";
ErrorInCondition ==
    << PrintS(Str("x")),
       IfStatement(Bin(Num(1), "Less", Str("a")), PrintS(Str("t")),
                   Some(PrintS(Str("e")))),
       PrintS(Str("after")) >>

\* print "x"; x = 1; print "after";
ErrorAssign == << PrintS(Str("x")), Assign("x", Num(1)), PrintS(Str("after")) >>

ErrorSources ==
    << Source("error", 1, 0, 0, ErrorTopLevel),
       Source("error", 2, 0, 0, ErrorNested),
       Source("error", 3, 0, 0, ErrorInInit),
       Source("error", 4, 0, 0, ErrorInArgument),
       Source("error", 5, 0, 0, ErrorProperty),
       Source("error", 6, 0, 0, ErrorInCondition),
       Source("error", 7, 0, 0, ErrorAssign) >>

(***************************************************************************)
(* Property access and super, over a chain of classes.  The l-th bit of    *)
(* `mask` tells whether the l-th class of the chain declares the method.   *)
(***************************************************************************)
Bit(mask, l) == (mask \div (2 ^ l)) % 2 = 1

\* name() { return "<class>" + this.tag; }, when the class declares it.
Tagged(name, class, declared) ==
    IF declared
    THEN Method(name, <<>>,
                << Ret(Bin(Str(class), "Add", Get(ThisExpression(1), "tag"))) >>)
    ELSE EmptyMap

PropClasses == <<"A", "B", "C">>

\* class A { [m] } class B < A { [m] } class C < B { [m] }
\* var o2 = R(); o2.tag = "u"; var o = R(); o.tag = "t"; [o.m = "F";]
\* var p = o.m; [var r = p();]
PropProgram(mask, receiver, field) ==
    << ClassS("A", Tagged("m", "A", Bit(mask, 0))),
       SubclassS("B", "A", Tagged("m", "B", Bit(mask, 1))),
       SubclassS("C", "B", Tagged("m", "C", Bit(mask, 2))),
       VarS("o2", Call0(PropClasses[receiver + 1])),
       SetS(Var("o2"), "tag", Str("u")),
       VarS("o", Call0(PropClasses[receiver + 1])),
       SetS(Var("o"), "tag", Str("t")) >>
    \o (IF field = 1 THEN << SetS(Var("o"), "m", Str("F")) >> ELSE <<>>)
    \o << VarS("p", Get(Var("o"), "m")) >>
    \o (IF field = 1 THEN <<>> ELSE << VarS("r", Call0("p")) >>)

PropSources ==
    [i \in 1..48 |-> Source("prop", (i - 1) \div 6, ((i - 1) % 6) \div 2, (i - 1) % 2,
                            PropProgram((i - 1) \div 6, ((i - 1) % 6) \div 2,
                                        (i - 1) % 2))]

SuperClasses == <<"Z", "A", "B", "C">>

\* class Z { [method] } class A < Z { [method] }
\* class B < A { test() { return super.method(); } [method] }
\* class C < B { [method] }
\* var o = R(); o.tag = "t"; var r = o.test();
SuperProgram(mask, receiver) ==
    << ClassS("Z", Tagged("method", "Z", Bit(mask, 0))),
       SubclassS("A", "Z", Tagged("method", "A", Bit(mask, 1))),
       SubclassS("B", "A",
           Method("test", <<>>, << Ret(CallE(SuperExpression("method", 1), <<>>)) >>)
           @@ Tagged("method", "B", Bit(mask, 2))),
       SubclassS("C", "B", Tagged("method", "C", Bit(mask, 3))),
       VarS("o", Call0(SuperClasses[receiver + 1])),
       SetS(Var("o"), "tag", Str("t")),
       VarS("r", CallE(Get(Var("o"), "test"), <<>>)) >>

SuperSources ==
    [i \in 1..32 |-> Source("super", (i - 1) \div 2, 2 + ((i - 1) % 2), 0,
                            SuperProgram((i - 1) \div 2, 2 + ((i - 1) % 2)))]

(***************************************************************************)
(* Class calls.  A declares init with n parameters and B < A one with      *)
(* MaxArity - n, each when `mask` says so; the class `receiver` is called  *)
(* with m arguments.                                                       *)
(***************************************************************************)
InstClasses == <<"A", "B">>

InstArgs(m) == [i \in 1..m |-> Num(i)]

InstParams(l, n) == IF l = 0 THEN n ELSE MaxArity - n

\* init(p1, .., pk) { print "<class>"; g = 1; this.k = "<class>"; [this.x = pk;] }
InstInit(class, k, declared) ==
    IF declared
    THEN Method("init", Params(k),
                << PrintS(Str(class)), Assign("g", Num(1)),
                   SetS(ThisExpression(1), "k", Str(class)) >>
                \o (IF k > 0
                    THEN << SetS(ThisExpression(1), "x", Var("p" \o ToString(k))) >>
                    ELSE <<>>))
    ELSE EmptyMap

\* var g = 0; class A { [init] } class B < A { [init] }
\* print "before"; var o = R(1, .., m); print "after";
InstProgram(mask, receiver, n, m) ==
    << VarS("g", Num(0)),
       ClassS("A", InstInit("A", InstParams(0, n), Bit(mask, 0))),
       SubclassS("B", "A", InstInit("B", InstParams(1, n), Bit(mask, 1))),
       PrintS(Str("before")),
       VarS("o", CallE(Var(InstClasses[receiver + 1]), InstArgs(m))),
       PrintS(Str("after")) >>

InstSources ==
    [i \in 1..(8 * (MaxArity + 1) * (MaxArity + 1)) |->
        Source("inst", (i - 1) % 8, ((i - 1) \div 8) % (MaxArity + 1),
               (i - 1) \div (8 * (MaxArity + 1)),
               InstProgram(((i - 1) % 8) % 4, ((i - 1) % 8) \div 4,
                           ((i - 1) \div 8) % (MaxArity + 1),
                           (i - 1) \div (8 * (MaxArity + 1))))]

(***************************************************************************)
(* Blocks.  The enclosing frame is the globals (outer = 0), a block        *)
(* (outer = 1) or the frame of a call (outer = 2).                         *)
(***************************************************************************)
\* var a = 1; var b = 1;
\* { [var a = 2;] a = 10 + v; b = 20 + v; var c = 5; print a; print c; }
\* print a; print b; print c;
BlockBody(shadow, v) ==
    << VarS("a", Num(1)),
       VarS("b", Num(1)),
       Block((IF shadow = 1 THEN << VarS("a", Num(2)) >> ELSE <<>>)
             \o << Assign("a", Num(10 + v)),
                   Assign("b", Num(20 + v)),
                   VarS("c", Num(5)),
                   PrintS(Var("a")),
                   PrintS(Var("c")) >>),
       PrintS(Var("a")),
       PrintS(Var("b")),
       PrintS(Var("c")) >>

BlockProgram(shadow, outer, v) ==
    CASE outer = 0 -> BlockBody(shadow, v)
      [] outer = 1 -> << Block(BlockBody(shadow, v)) >>
      [] outer = 2 -> << Fun("f", <<>>, BlockBody(shadow, v)), ExprS(Call0("f")) >>

BlockSources ==
    [i \in 1..(6 * (MaxVal + 1)) |->
        Source("block", (i - 1) % 2, ((i - 1) \div 2) % 3, (i - 1) \div 6,
               BlockProgram((i - 1) % 2, ((i - 1) \div 2) % 3, (i - 1) \div 6))]

(***************************************************************************)
(* Reads of a name in an initializer.  The statements are placed at the    *)
(* global level (0), in a block (1), in a function's body (2), in a        *)
(* method's body (3) or in a block of a function's body (4).               *)
(***************************************************************************)
Placed(place, stmts) ==
    CASE place = 0 -> stmts
      [] place = 1 -> << Block(stmts) >>
      [] place = 2 -> << Fun("f", <<>>, stmts) >>
      [] place = 3 -> << ClassS("K", Method("m", <<>>, stmts)) >>
      [] place = 4 -> << Fun("f", <<>>, << Block(stmts) >>) >>

\* 0: var x = x;               1: var x = 1; var y = x;    2: var y = x;
\* 3: var x = 1; { var y = x; }   4: var x = 1; { var x = x; }
\* 5: var x = x + x;
ReadBody(kind) ==
    CASE kind = 0 -> << VarS("x", Var("x")) >>
      [] kind = 1 -> << VarS("x", Num(1)), VarS("y", Var("x")) >>
      [] kind = 2 -> << VarS("y", Var("x")) >>
      [] kind = 3 -> << VarS("x", Num(1)), Block(<< VarS("y", Var("x")) >>) >>
      [] kind = 4 -> << VarS("x", Num(1)), Block(<< VarS("x", Var("x")) >>) >>
      [] kind = 5 -> << VarS("x", Bin(Var("x"), "Add", Var("x"))) >>

ReadSources ==
    [i \in 1..30 |-> Source("read", (i - 1) \div 6, (i - 1) % 6, 0,
                            Placed((i - 1) \div 6, ReadBody((i - 1) % 6)))]

(***************************************************************************)
(* Declarations of a name a scope already holds.                           *)
(***************************************************************************)
\* 0: var x = 1; var x = 2;        1: var x = 1; fun x() {}
\* 2: fun x() {} class x {}        3: class x {} var x = 2;
\* 4: fun g(p, p) {}               5: fun g(p) { var p = 1; }
\* 6: var x = 1; { var x = 2; }    7: var x; var x; var x;
RedeclareBody(kind) ==
    CASE kind = 0 -> << VarS("x", Num(1)), VarS("x", Num(2)) >>
      [] kind = 1 -> << VarS("x", Num(1)), Fun("x", <<>>, <<>>) >>
      [] kind = 2 -> << Fun("x", <<>>, <<>>), ClassS("x", EmptyMap) >>
      [] kind = 3 -> << ClassS("x", EmptyMap), VarS("x", Num(2)) >>
      [] kind = 4 -> << Fun("g", <<"p", "p">>, <<>>) >>
      [] kind = 5 -> << Fun("g", <<"p">>, << VarS("p", Num(1)) >>) >>
      [] kind = 6 -> << VarS("x", Num(1)), Block(<< VarS("x", Num(2)) >>) >>
      [] kind = 7 -> << VarStatement("x", None, 1), VarStatement("x", None, 1),
                        VarStatement("x", None, 1) >>

RedeclareSources ==
    [i \in 1..40 |-> Source("redeclare", (i - 1) \div 8, (i - 1) % 8, 0,
                            Placed((i - 1) \div 8, RedeclareBody((i - 1) % 8)))]

(***************************************************************************)
(* Return statements in and outside of functions and initializers.         *)
(***************************************************************************)
InitClass(statements) == ClassS("K", Method("init", <<>>, statements))

\*  0: return;                       1: return 1;
\*  2: { return 1; }                 3: while (false) return;
\*  4: fun f() { return 1; }         5: fun f() { { return; } }
\*  6: class K { init() { return; } }
\*  7: class K { init() { return 1; } }
\*  8: class K { init() { fun g() { return 1; } } }
\*  9: class K { m() { return 1; } }
\* 10: fun init() { return 1; }
\* 11: class K { init() { if (true) { return this; } } }
\* 12: class K { init() { return 1; return 2; } }
\* 13: class K { init() { fun g() { return 1; } return 2; } }
\* 14: fun f() { return; } return f;
ReturnProgram(kind) ==
    CASE kind = 0 -> << ReturnStatement(None, 1) >>
      [] kind = 1 -> << Ret(Num(1)) >>
      [] kind = 2 -> << Block(<< Ret(Num(1)) >>) >>
      [] kind = 3 -> << While(Bool(FALSE), ReturnStatement(None, 1)) >>
      [] kind = 4 -> << Fun("f", <<>>, << Ret(Num(1)) >>) >>
      [] kind = 5 -> << Fun("f", <<>>, << Block(<< ReturnStatement(None, 1) >>) >>) >>
      [] kind = 6 -> << InitClass(<< ReturnStatement(None, 1) >>) >>
      [] kind = 7 -> << InitClass(<< Ret(Num(1)) >>) >>
      [] kind = 8 -> << InitClass(<< Fun("g", <<>>, << Ret(Num(1)) >>) >>) >>
      [] kind = 9 -> << ClassS("K", Method("m", <<>>, << Ret(Num(1)) >>)) >>
      [] kind = 10 -> << Fun("init", <<>>, << Ret(Num(1)) >>) >>
      [] kind = 11 -> << InitClass(<< If(Bool(TRUE),
                                         Block(<< Ret(ThisExpression(1)) >>)) >>) >>
      [] kind = 12 -> << InitClass(<< Ret(Num(1)), Ret(Num(2)) >>) >>
      [] kind = 13 -> << InitClass(<< Fun("g", <<>>, << Ret(Num(1)) >>),
                                      Ret(Num(2)) >>) >>
      [] kind = 14 -> << Fun("f", <<>>, << ReturnStatement(None, 1) >>),
                         Ret(Var("f")) >>

ReturnSources == [i \in 1..15 |-> Source("return", i - 1, 0, 0, ReturnProgram(i - 1))]

(***************************************************************************)
(* `this` in and outside of classes.                                       *)
(***************************************************************************)
RetThis == Ret(ThisExpression(1))

\* var o = K(); var r = o.m();
CallM == << VarS("o", Call0("K")), VarS("r", CallE(Get(Var("o"), "m"), <<>>)) >>

\*  0: print this;                   1: fun f() { return this; }
\*  2: { print this; }               3: class K { m() { return this; } }
\*  4: class K { m() { fun g() { return this; } return g(); } }
\*  5: class K { m() { { { return this; } } } }
\*  6: class A {} class K < A { m() { return this; } }
\*  7: fun f() { class K { m() { return this; } } return K().m(); }
\*  8: class K { m() { class J { n() { return this; } } return J().n(); } }
\*  9: class K { m() { return 1; } } print this;
\* 10: print this; fun f() { return this; }
\* and, after the classes of 3 to 6 and 8, var o = K(); var r = o.m();
\* after 7, var r = f();
ThisProgram(kind) ==
    CASE kind = 0 -> << PrintS(ThisExpression(1)) >>
      [] kind = 1 -> << Fun("f", <<>>, << RetThis >>) >>
      [] kind = 2 -> << Block(<< PrintS(ThisExpression(1)) >>) >>
      [] kind = 3 -> << ClassS("K", Method("m", <<>>, << RetThis >>)) >> \o CallM
      [] kind = 4 -> << ClassS("K", Method("m", <<>>,
                            << Fun("g", <<>>, << RetThis >>), Ret(Call0("g")) >>)) >>
                     \o CallM
      [] kind = 5 -> << ClassS("K", Method("m", <<>>,
                            << Block(<< Block(<< RetThis >>) >>) >>)) >> \o CallM
      [] kind = 6 -> << ClassS("A", EmptyMap),
                        SubclassS("K", "A", Method("m", <<>>, << RetThis >>)) >> \o CallM
      [] kind = 7 -> << Fun("f", <<>>,
                            << ClassS("K", Method("m", <<>>, << RetThis >>)),
                               Ret(CallE(Get(Call0("K"), "m"), <<>>)) >>),
                        VarS("r", Call0("f")) >>
      [] kind = 8 -> << ClassS("K", Method("m", <<>>,
                            << ClassS("J", Method("n", <<>>, << RetThis >>)),
                               Ret(CallE(Get(Call0("J"), "n"), <<>>)) >>)) >> \o CallM
      [] kind = 9 -> << ClassS("K", Method("m", <<>>, << Ret(Num(1)) >>)),
                        PrintS(ThisExpression(1)) >>
      [] kind = 10 -> << PrintS(ThisExpression(1)), Fun("f", <<>>, << RetThis >>) >>

ThisSources == [i \in 1..11 |-> Source("this", i - 1, 0, 0, ThisProgram(i - 1))]

(***************************************************************************)
(* `super` in and outside of subclasses.                                   *)
(***************************************************************************)
SuperM == SuperExpression("m", 1)

RetSuperM == Ret(CallE(SuperM, <<>>))

\* class A { m() { return "A"; } }
SuperBase == ClassS("A", Method("m", <<>>, << Ret(Str("A")) >>))

\*  0: print super.m;                1: fun f() { return super.m; }
\*  2: class K { t() { return super.m; } }
\*  3: class A {..} class B < A { t() { return super.m(); } }
\*  4: class A {..} class B < A { t() { fun g() { return super.m(); } return g(); } }
\*  5: class A {..} class B < A { t() { { { return super.m(); } } } }
\*  6: class A {..} class B < A { t() { class K { n() { return super.m; } } } }
\*  7: class A {..}
\*     class B { t() { class J < A { n() { return super.m(); } } return J().n(); } }
\*  8: class A {..} class B < A { t() { return 1; } } print super.m;
\*  9: class A {..} class B < A { t() { return super.m(); } }
\*     class K { u() { return super.m; } }
\* and, after the classes of 3, 4, 5 and 7, var r = B().t();
SuperUseProgram(kind) ==
    CASE kind = 0 -> << PrintS(SuperM) >>
      [] kind = 1 -> << Fun("f", <<>>, << Ret(SuperM) >>) >>
      [] kind = 2 -> << ClassS("K", Method("t", <<>>, << Ret(SuperM) >>)) >>
      [] kind = 3 -> << SuperBase, SubclassS("B", "A", Method("t", <<>>, << RetSuperM >>)) >>
      [] kind = 4 -> << SuperBase,
                        SubclassS("B", "A", Method("t", <<>>,
                            << Fun("g", <<>>, << RetSuperM >>), Ret(Call0("g")) >>)) >>
      [] kind = 5 -> << SuperBase,
                        SubclassS("B", "A", Method("t", <<>>,
                            << Block(<< Block(<< RetSuperM >>) >>) >>)) >>
      [] kind = 6 -> << SuperBase,
                        SubclassS("B", "A", Method("t", <<>>,
                            << ClassS("K", Method("n", <<>>, << Ret(SuperM) >>)) >>)) >>
      [] kind = 7 -> << SuperBase,
                        ClassS("B", Method("t", <<>>,
                            << SubclassS("J", "A", Method("n", <<>>, << RetSuperM >>)),
                               Ret(CallE(Get(Call0("J"), "n"), <<>>)) >>)) >>
      [] kind = 8 -> << SuperBase,
                        SubclassS("B", "A", Method("t", <<>>, << Ret(Num(1)) >>)),
                        PrintS(SuperM) >>
      [] kind = 9 -> << SuperBase,
                        SubclassS("B", "A", Method("t", <<>>, << RetSuperM >>)),
                        ClassS("K", Method("u", <<>>, << Ret(SuperM) >>)) >>

SuperUseSources ==
    [i \in 1..10 |->
        Source("superuse", i - 1, 0, 0,
               SuperUseProgram(i - 1)
               \o (IF i - 1 \in {3, 4, 5, 7}
                   THEN << VarS("r", CallE(Get(Call0("B"), "t"), <<>>)) >>
                   ELSE <<>>))]

(***************************************************************************)
(* Texts the parser rejects, and one it accepts.                           *)
(***************************************************************************)
SyncWords ==
    << << "print", "1", ";", "print", "2", ";" >>,
       << "print", ";", "print", "2", ";" >>,
       << "print", "1", "print", "2", ";" >>,
       << "print", "+", "1", ";", "print", "2", ";" >>,
       << "var", "=", "1", ";", "x", ";", "var", "y", ";" >>,
       << "fun", "(", ")", "{", "}", "print", "1", ";" >>,
       << "{", "print", "1", ";", "print", ";", "}", "print", "2", ";" >>,
       << "{", "print", "+", ";", "print", "3", ";", "}", "print", "2", ";" >>,
       << "1", "=", "2", ";", "print", "3", ";" >>,
       << "(", "1", "=", "2", ")", "+", ";", "x", ";", "print", "3", ";" >>,
       << "a", "=", ";", "\n", "b", "=", ";", "\n", "c" >>,
       << "print", "1", "\n", "print", "2", ";" >>,
       << "class", "A", "{", "}", "print", "1", ";" >>,
       << "print", "1" >>,
       << "print", "var", "x", ";", "print", "2", ";" >>,
       << "x", "y", "z", "\n", "while", "(", "true", "\n", "print", "1", ";" >>,
       << "if", "(", "1", ")" >>,
       << "print", "1", "if", "(", "1", ")" >>,
       << "f", "(", "1", "=", "2", ",", "3", "=", "1", ")", ";", "}" >> >>

\* f(0, 0, ..., 0); with n arguments.
ArgumentsTokens(n) ==
    << Word("f", 1), Word("(", 1) >>
    \o [i \in 1..(2 * n - 1) |-> IF i % 2 = 1 THEN Word("0", 1) ELSE Word(",", 1)]
    \o << Word(")", 1), Word(";", 1), Token("Eof", "", None, 1) >>

\* fun f(a, a, ..., a) {} with n parameters.
ParametersTokens(n) ==
    << Word("fun", 1), Word("f", 1), Word("(", 1) >>
    \o [i \in 1..(2 * n - 1) |-> IF i % 2 = 1 THEN Word("a", 1) ELSE Word(",", 1)]
    \o << Word(")", 1), Word("{", 1), Word("}", 1), Token("Eof", "", None, 1) >>

SyncSources ==
    [i \in 1..Len(SyncWords) |-> TokenSource("sync", i, 0, 0, Tokens(SyncWords[i]))]
    \o << TokenSource("sync", 0, 1, MaxArguments + 1, ArgumentsTokens(MaxArguments + 1)),
          TokenSource("sync", 0, 2, MaxParameters + 1,
                      ParametersTokens(MaxParameters + 1)) >>

(***************************************************************************)
(* Assignments.                                                            *)
(***************************************************************************)
AssignWords ==
    << << "a", "=", "1", ";" >>,
       << "a", "\n", "=", "\n", "1", ";" >>,
       << "a", "=", "b", "\n", "=", "1", ";" >>,
       << "1", "=", "2", ";" >>,
       << "(", "a", ")", "=", "1", ";" >>,
       << "a", "+", "b", "\n", "=", "1", ";", "print", "2", ";" >>,
       << "f", "(", ")", "=", "1", ";" >>,
       << "a", "=", "1", "=", "2", ";" >>,
       << "o", ".", "f", "=", "1", ";" >>,
       << "o", ".", "f", "=", "p", ".", "g", "=", "1", ";" >> >>

AssignSources ==
    [i \in 1..Len(AssignWords) |->
        TokenSource("assign", i, 0, 0, Tokens(AssignWords[i]))]

(***************************************************************************)
(* For statements, and the same texts with the block and the while loop    *)
(* written out.                                                            *)
(***************************************************************************)
ForWords ==
    << << "for", "(", "var", "i", "=", "0", ";", "i", "<", "3", ";", "i", "=", "i",
          "+", "1", ")", "print", "i", ";" >>,
       << "var", "i", "=", "0", ";", "for", "(", ";", "i", "<", "2", ";", "i", "=",
          "i", "+", "1", ")", "{", "print", "i", ";", "}" >>,
       << "for", "(", "var", "i", "=", "0", ";", "i", "<", "2", ";", ")", "{",
          "print", "i", ";", "i", "=", "i", "+", "1", ";", "}" >>,
       << "var", "k", "=", "0", ";", "fun", "f", "(", ")", "{", "for", "(", ";",
          ";", "k", "=", "k", "+", "1", ")", "{", "return", "1", ";", "}", "}",
          "print", "f", "(", ")", ";", "print", "k", ";" >>,
       << "var", "i", "=", "3", ";", "for", "(", "i", "=", "0", ";", "i", "<", "2",
          ";", "i", "=", "i", "+", "1", ")", "print", "i", ";", "print", "i", ";" >>,
       << "var", "g", ";", "for", "(", "var", "i", "=", "0", ";", "i", "<", "2",
          ";", "i", "=", "i", "+", "1", ")", "{", "fun", "h", "(", ")", "{", "return",
          "i", ";", "}", "if", "(", "i", "==", "0", ")", "g", "=", "h", ";", "}",
          "print", "g", "(", ")", ";" >>,
       << "var", "i", "=", "1", ";", "for", "(", "var", "i", "=", "0", ";", "i",
          "<", "1", ";", "i", "=", "i", "+", "1", ")", "print", "i", ";", "print",
          "i", ";" >>,
       << "for", "(", "var", "i", "=", "3", ";", "i", "<", "3", ";", "i", "=", "i",
          "+", "1", ")", "print", "i", ";", "print", "1", ";" >>,
       << "var", "n", "=", "0", ";", "fun", "a", "(", ")", "{", "print", "0", ";",
          "}", "fun", "c", "(", ")", "{", "print", "1", ";", "return", "n", "<", "2",
          ";", "}", "fun", "u", "(", ")", "{", "print", "3", ";", "n", "=", "n", "+",
          "1", ";", "}", "for", "(", "a", "(", ")", ";", "c", "(", ")", ";", "u", "(",
          ")", ")", "print", "2", ";" >>,
       << "for", "(", "var", "i", "=", "0", ";", "i", "<", "1", ";", "i", "=", "i",
          "+", "1", ")", "print", "i", ";", "print", "i", ";" >> >>

ForBlockWords ==
    << << "{", "var", "i", "=", "0", ";", "while", "(", "i", "<", "3", ")", "{",
          "print", "i", ";", "i", "=", "i", "+", "1", ";", "}", "}" >>,
       << "var", "i", "=", "0", ";", "{", "while", "(", "i", "<", "2", ")", "{",
          "{", "print", "i", ";", "}", "i", "=", "i", "+", "1", ";", "}", "}" >>,
       << "{", "var", "i", "=", "0", ";", "while", "(", "i", "<", "2", ")", "{",
          "{", "print", "i", ";", "i", "=", "i", "+", "1", ";", "}", "}", "}" >>,
       << "var", "k", "=", "0", ";", "fun", "f", "(", ")", "{", "{", "while", "(",
          "true", ")", "{", "{", "return", "1", ";", "}", "k", "=", "k", "+", "1",
          ";", "}", "}", "}", "print", "f", "(", ")", ";", "print", "k", ";" >>,
       << "var", "i", "=", "3", ";", "{", "i", "=", "0", ";", "while", "(", "i",
          "<", "2", ")", "{", "print", "i", ";", "i", "=", "i", "+", "1", ";", "}",
          "}", "print", "i", ";" >>,
       << "var", "g", ";", "{", "var", "i", "=", "0", ";", "while", "(", "i", "<",
          "2", ")", "{", "{", "fun", "h", "(", ")", "{", "return", "i", ";", "}",
          "if", "(", "i", "==", "0", ")", "g", "=", "h", ";", "}", "i", "=", "i", "+",
          "1", ";", "}", "}", "print", "g", "(", ")", ";" >>,
       << "var", "i", "=", "1", ";", "{", "var", "i", "=", "0", ";", "while", "(",
          "i", "<", "1", ")", "{", "print", "i", ";", "i", "=", "i", "+", "1", ";",
          "}", "}", "print", "i", ";" >>,
       << "{", "var", "i", "=", "3", ";", "while", "(", "i", "<", "3", ")", "{",
          "print", "i", ";", "i", "=", "i", "+", "1", ";", "}", "}", "print", "1", ";"
          >>,
       << "var", "n", "=", "0", ";", "fun", "a", "(", ")", "{", "print", "0", ";",
          "}", "fun", "c", "(", ")", "{", "print", "1", ";", "return", "n", "<", "2",
          ";", "}", "fun", "u", "(", ")", "{", "print", "3", ";", "n", "=", "n", "+",
          "1", ";", "}", "{", "a", "(", ")", ";", "while", "(", "c", "(", ")", ")",
          "{", "print", "2", ";", "u", "(", ")", ";", "}", "}" >>,
       << "{", "var", "i", "=", "0", ";", "while", "(", "i", "<", "1", ")", "{",
          "print", "i", ";", "i", "=", "i", "+", "1", ";", "}", "}", "print", "i", ";"
          >> >>

\* b = 0: the for statement; b = 1: the block.
ForSources ==
    [i \in 1..(2 * Len(ForWords)) |->
        IF i <= Len(ForWords)
        THEN TokenSource("for", i, 0, 0, Tokens(ForWords[i]))
        ELSE TokenSource("for", i - Len(ForWords), 1, 0,
                         Tokens(ForBlockWords[i - Len(ForWords)]))]

(***************************************************************************)
(* Source texts for the scanner.                                           *)
(***************************************************************************)
Texts ==
    << "print \"a b\";\n",
       "print \"a\"",
       "print \"a",
       "print \"a\nb\";\nprint 1 +;",
       "var x1 = 12.5 >= 3; // c \"\nprint x1 != !true;\n",
       "print 1 @ 2;\n# print 3;",
       "print 1;\nprint (;\nprint 2 ? 3;\n",
       "print 1;\nprint (;\nprint \"b",
       "var _a = \"\";\nprint _a == \"\";\n",
       "fun f(a, b) { return a - b * 2 / 4; }\nprint f(3, 1) < 3 == (2 <= 2);\n",
       "{ var a = 1.5; a = a + 1; print a > 2; }\n",
       "print \"\";\nprint \"" >>

TextSources == [i \in 1..Len(Texts) |-> TextSource("text", i, 0, 0, Texts[i])]

(***************************************************************************)
(* Functions that return from inside blocks, if branches and loops.  Each  *)
(* text prints what it executes.                                           *)
(***************************************************************************)
UnwindTexts ==
    << "fun f() { print 1; { if (true) { while (true) { print 2; return 3; print 4; } print 5; } print 6; } print 7; }\nprint f(); print 8;",
       "fun f() { while (true) { { return; } } print 1; }\nprint f();",
       "fun f() { print 1; }\nprint f();",
       "var n = 0;\nfun c() { n = n + 1; print 0; return n < 5; }\nfun f() { while (c()) { if (n == 2) return n; else print n; } return 9; }\nprint f(); print n;",
       "fun g() { { return 1; } print 5; }\nfun f() { print g(); print 2; return 3; print 6; }\nprint f(); print 4;",
       "fun f(a) { if (a) { print 1; } else { { return 2; } } print 3; }\nprint f(true); print f(false);",
       "fun f() { for (var i = 0; i < 3; i = i + 1) { if (i == 1) return i; print i; } print 7; }\nprint f();",
       "fun f() { var i = 0; while (i < 2) { var j = 0; while (j < 2) { if (j == 1) return i + j + 3; print j; j = j + 1; } i = i + 1; } }\nprint f();" >>

UnwindPrinted ==
    << << "1", "2", "3", "8" >>,
       << "nil" >>,
       << "1", "nil" >>,
       << "0", "1", "0", "2", "2" >>,
       << "1", "2", "3", "4" >>,
       << "1", "3", "nil", "2" >>,
       << "0", "1" >>,
       << "0", "4" >> >>

UnwindSources ==
    [i \in 1..Len(UnwindTexts) |-> TextSource("unwind", i, 0, 0, UnwindTexts[i])]

(***************************************************************************)
(* Globals and locals read and assigned at several depths.                 *)
(***************************************************************************)
ScopeTexts ==
    << "var a = \"g\";\n{ fun show() { print a; }\n  show(); var a = \"b\"; show(); print a; }",
       "var a = 1;\n{ var b = 2; { print a; a = a + b; } print a; }\nprint a;",
       "var a = 1;\n{ var a = 2; print a; { var a = 3; print a; } print a; }\nprint a;",
       "fun f(a) { print a; { var a = 5; print a; } a = 7; print a; }\nvar a = 1; f(2); print a;",
       "fun f() { print x; }\nvar x = 4; f();",
       "{ var b = 1;\n  print y; }",
       "var x = 0;\nfun mk() { var x = 1; fun g() { x = x + 1; return x; } return g; }\nvar g = mk(); print g(); print x;",
       "print a;" >>

ScopePrinted ==
    << << "g", "g", "b" >>,
       << "1", "3", "3" >>,
       << "2", "3", "2", "1" >>,
       << "2", "5", "7", "1" >>,
       << "4" >>,
       << >>,
       << "2", "0" >>,
       << >> >>

ScopeSources ==
    [i \in 1..Len(ScopeTexts) |-> TextSource("scope", i, 0, 0, ScopeTexts[i])]

Sources ==
    ScenarioSources \o ResolvedSources \o ClosureSources \o AritySources
    \o InitSources \o EqSources \o LogicalSources \o ErrorSources
    \o PropSources \o SuperSources \o InstSources \o BlockSources
    \o ReadSources \o RedeclareSources \o ReturnSources \o ThisSources
    \o SuperUseSources \o SyncSources \o AssignSources \o ForSources
    \o TextSources \o UnwindSources \o ScopeSources

\* The lines typed at the prompt.
PromptLines ==
    << Source("line", 1, 0, 0, << VarS("a", Num(1)) >>),
       Source("line", 2, 0, 0, << PrintS(Var("a")) >>),
       Source("line", 3, 0, 0, << Assign("a", Bin(Var("a"), "Add", Num(1))) >>),
       Source("line", 4, 0, 0, ScenarioF),
       Source("line", 5, 0, 0, ScenarioG),
       ScenarioSources[8],
       ScenarioSources[9] >>

(***************************************************************************)
(* The host program (main.rs) and Interpreter (interpreter/mod.rs).        *)
(***************************************************************************)
MaxLines == 2

MaxClock == 1

VARIABLES
    mode,        \* "none", "file" (a source file was named) or "prompt"
    pc,          \* where the host is: main, readline, run, parse, exec, returned,
                 \* exited
    source,      \* the source text handed to Interpreter::run
    statements,  \* parse's vector while parsing; then run's loop: the
                 \* statements not yet executed
    st,          \* the heap and the output sink
    result,      \* what the last Interpreter::run returned
    exit,        \* how the process ended: running, ok, err, panic
    lines,       \* the lines read at the prompt
    parser       \* the Parser of the run: tokens, position, errors, last line

vars == <<mode, pc, source, statements, st, result, exit, lines, parser>>

\* Interpreter::new: Context::new and the definition of clock.
InterpreterCtx == Context(1, 1)

InterpreterNew ==
    LET empty == [envs |-> <<>>, funs |-> <<>>, classes |-> <<>>, insts |-> <<>>,
                  out |-> <<>>, now |-> 0, raised |-> <<>>, steps |-> 0]
        globals == EnvironmentNew(None, empty)
        clock == RcNewFunction(Clock, globals.st)
    IN  CtxDefine(InterpreterCtx, "clock", Callable(clock.rc), clock.st)

NoResult == [tag |-> "None", val |-> 0]

\* No Parser was made yet.
NoParser == [tokens |-> <<>>, pos |-> 1, errors |-> <<>>, last_line |-> 1]

Init ==
    /\ mode = "none"
    /\ pc = "main"
    /\ source = NoSource
    /\ statements = <<>>
    /\ st = InterpreterNew
    /\ result = NoResult
    /\ exit = "running"
    /\ lines = 0
    /\ parser = NoParser

\* main with a source file: fs::read_to_string, then interpreter.run.
MainFile ==
    /\ pc = "main"
    /\ \E i \in 1..Len(Sources) : source' = Sources[i]
    /\ mode' = "file"
    /\ pc' = "run"
    /\ UNCHANGED <<statements, st, result, exit, lines, parser>>

\* main without one: run_prompt.
MainPrompt ==
    /\ pc = "main"
    /\ mode' = "prompt"
    /\ pc' = "readline"
    /\ UNCHANGED <<source, statements, st, result, exit, lines, parser>>

\* run_prompt: readline returned Ok(line); the line goes to interpreter.run.
\* (The line editor's history is outside this model.)
ReadlineOk ==
    /\ pc = "readline"
    /\ lines < MaxLines
    /\ \E i \in 1..Len(PromptLines) : source' = PromptLines[i]
    /\ lines' = lines + 1
    /\ pc' = "run"
    /\ UNCHANGED <<mode, statements, st, result, exit, parser>>

\* run_prompt: Err(Interrupted) and Err(Eof) break the loop; Ok(()).
ReadlineEnd ==
    /\ pc = "readline"
    /\ pc' = "exited"
    /\ exit' = "ok"
    /\ UNCHANGED <<mode, source, statements, st, result, lines, parser>>

\* run_prompt: any other readline error is returned.
ReadlineFail ==
    /\ pc = "readline"
    /\ pc' = "exited"
    /\ exit' = "err"
    /\ result' = [tag |-> "Err", val |-> [kind |-> "ReadlineError", details |-> <<>>]]
    /\ UNCHANGED <<mode, source, statements, st, lines, parser>>

\* Interpreter::run, lines 144 to 146: scan_tokens(source)?, parse()?,
\* resolve(&mut statements)?.
RunFront(src) ==
    IF Len(src.scanner_errors) > 0
    THEN [tag |-> "Err", val |-> [kind |-> "ScannerErrors", details |-> src.scanner_errors]]
    ELSE IF Len(src.syntax_errors) > 0
    THEN [tag |-> "Err", val |-> [kind |-> "SyntaxErrors", details |-> src.syntax_errors]]
    ELSE Resolve(src.statements)

RunStart ==
    /\ pc = "run"
    /\ Len(source.tokens) = 0
    /\ Len(source.text) = 0
    /\ \E r \in {RunFront(source)} :
           IF r.tag = "Ok"
           THEN /\ statements' = r.val
                /\ pc' = "exec"
                /\ result' = NoResult
           ELSE /\ statements' = <<>>
                /\ pc' = "returned"
                /\ result' = r
    /\ st' = [st EXCEPT !.raised = <<>>, !.steps = 0]
    /\ UNCHANGED <<mode, source, exit, lines, parser>>

\* Interpreter::run, line 144, for a source given by its characters:
\* scan_tokens(source)?, and Parser::new(&tokens) of line 145.
RunScanner ==
    /\ pc = "run"
    /\ Len(source.text) > 0
    /\ \E r \in {ScanTokens(source.text)} :
           IF r.tag = "Ok"
           THEN /\ parser' = ParserNew(r.val)
                /\ pc' = "parse"
                /\ result' = NoResult
           ELSE /\ parser' = parser
                /\ pc' = "returned"
                /\ result' = r
    /\ statements' = <<>>
    /\ st' = [st EXCEPT !.raised = <<>>, !.steps = 0]
    /\ UNCHANGED <<mode, source, exit, lines>>

\* Interpreter::run, line 145, for a source given by its tokens:
\* Parser::new(&tokens).
RunParser ==
    /\ pc = "run"
    /\ Len(source.tokens) > 0
    /\ parser' = ParserNew(source.tokens)
    /\ statements' = <<>>
    /\ pc' = "parse"
    /\ result' = NoResult
    /\ st' = [st EXCEPT !.raised = <<>>, !.steps = 0]
    /\ UNCHANGED <<mode, source, exit, lines>>

\* Parser::parse: one turn of its loop.  `statements` is parse's vector.
ParseDeclaration ==
    /\ pc = "parse"
    /\ IsSome(Peek(parser))
    /\ \E t \in {ParseTurn(parser, statements)} :
           /\ parser' = t.p
           /\ statements' = t.statements
           /\ IF t.tag = "Panic"
              THEN /\ pc' = "exited"
                   /\ result' = [tag |-> "Panic", val |-> t.val]
                   /\ exit' = "panic"
              ELSE UNCHANGED <<pc, result, exit>>
    /\ UNCHANGED <<mode, source, st, lines>>

\* Parser::parse after its loop, then Interpreter::run, line 146:
\* `.parse()?` and resolve(&mut statements)?.
RunParsed(r) == IF r.tag = "Ok" THEN Resolve(r.val) ELSE r

ParseEnd ==
    /\ pc = "parse"
    /\ ~IsSome(Peek(parser))
    /\ \E r \in {RunParsed(ParseResult(parser, statements))} :
           IF r.tag = "Ok"
           THEN /\ statements' = r.val
                /\ pc' = "exec"
                /\ result' = NoResult
           ELSE /\ statements' = <<>>
                /\ pc' = "returned"
                /\ result' = r
    /\ UNCHANGED <<mode, source, st, exit, lines, parser>>

\* Interpreter::run, lines 148 to 150: one turn of the loop,
\* statement.exec(self.ctx.clone())?.  `now` is the host clock's reading.
RunStatement ==
    /\ pc = "exec"
    /\ Len(statements) > 0
    /\ \E now \in 0..MaxClock :
         \E r \in {Exec(Head(statements), InterpreterCtx, [st EXCEPT !.now = now])} :
             /\ st' = [r.st EXCEPT !.now = 0]
             /\ IF r.tag = "Ok"
                THEN /\ statements' = Tail(statements)
                     /\ UNCHANGED <<pc, result, exit, parser>>
                ELSE IF r.tag = "Err"
                THEN /\ statements' = <<>>
                     /\ pc' = "returned"
                     /\ result' = [tag |-> "Err",
                                   val |-> [kind |-> "RuntimeError",
                                            details |-> <<r.val>>]]
                     /\ exit' = exit
                ELSE /\ statements' = <<>>
                     /\ pc' = "exited"
                     /\ result' = [tag |-> "Panic", val |-> r.val]
                     /\ exit' = "panic"
    /\ UNCHANGED <<mode, source, lines, parser>>

\* Interpreter::run, line 151: Ok(()).
RunEnd ==
    /\ pc = "exec"
    /\ Len(statements) = 0
    /\ pc' = "returned"
    /\ result' = [tag |-> "Ok", val |-> 0]
    /\ UNCHANGED <<mode, source, statements, st, exit, lines, parser>>

\* The caller's `interpreter.run(..)?`: main.rs line 57 in file mode, line
\* 35 in run_prompt, where Ok goes on to the next readline.
Returned ==
    /\ pc = "returned"
    /\ IF result.tag = "Err"
       THEN pc' = "exited" /\ exit' = "err"
       ELSE IF mode = "file"
       THEN pc' = "exited" /\ exit' = "ok"
       ELSE pc' = "readline" /\ exit' = exit
    /\ UNCHANGED <<mode, source, statements, st, result, lines, parser>>

Next ==
    \/ MainFile
    \/ MainPrompt
    \/ ReadlineOk
    \/ ReadlineEnd
    \/ ReadlineFail
    \/ RunStart
    \/ RunScanner
    \/ RunParser
    \/ ParseDeclaration
    \/ ParseEnd
    \/ RunStatement
    \/ RunEnd
    \/ Returned

Spec == Init /\ [][Next]_vars

(***************************************************************************)
(* Properties.                                                             *)
(***************************************************************************)
\* The run of a source file of the family `fam` has ended.
FileDone(fam) == mode = "file" /\ pc = "exited" /\ source.fam = fam

\* What print writes for each of the texts xs.
Printed(xs) == [i \in 1..Len(xs) |-> xs[i] \o "\n"]

Global(name) == st.envs[InterpreterCtx.globals].values[name]

\* C1: in a program the resolver accepts, every resolved depth is within
\* the chain of frames active where the node is evaluated: no lookup or
\* assignment ever walks past the root frame, and nothing else panics.
\* (st.steps > 0: a statement was executed, so the resolver had accepted
\* the program; a panic of the parser comes before that.)
C1_DepthWithinChain ==
    st.steps > 0 =>
        /\ result.tag # "Panic"
        /\ exit # "panic"

\* C1 witness: closures three functions deep have read and assigned a
\* variable two frames up, after the declaring calls returned.
C1_Witness ==
    /\ FileDone("resolved")
    /\ source.a = 2
    /\ exit = "ok"
    /\ st.out = Printed(<<"3", "5">>)

ClosureExpected(src) ==
    CASE src.a = 1 -> [k \in 1..src.b |-> ToString(k)]
      [] src.a = 2 -> <<"1", "2", "1">>
      [] src.a = 3 -> <<"1", ToString(src.b), ToString(src.c)>>
      [] src.a = 4 -> <<"3", "1">>

\* C2: a function value keeps the frame that was innermost when its
\* declaration executed, and shares it: assignments made through the
\* closure, through another closure of the same frame and by the enclosing
\* scope are seen by all of them, also after the scope has ended; each
\* call of mk() has a frame of its own.
C2_ClosuresShareFrame ==
    FileDone("closure") =>
        /\ exit = "ok"
        /\ st.out = Printed(ClosureExpected(source))
        /\ source.a = 3 =>
              /\ st.funs[Global("get").v].ctx.env = st.funs[Global("set").v].ctx.env
              /\ st.envs[st.funs[Global("get").v].ctx.env].values["x"]
                    = Number(F64(source.c))

\* C2 witness: get() printed what set(2) and then set(0) had assigned.
C2_Witness ==
    /\ FileDone("closure")
    /\ source.a = 3 /\ source.b = 2 /\ source.c = 0
    /\ st.out = Printed(<<"1", "2", "0">>)

RuntimeErrorResult(line, message) ==
    [tag |-> "Err",
     val |-> [kind |-> "RuntimeError", details |-> << ErrorDetail(line, message) >>]]

\* The step that executes the call of an arity program with n # m.
ArityMismatchStep ==
    /\ source.fam = "arity"
    /\ source.a # source.b
    /\ pc = "exec"
    /\ st.out = Printed(<<"before">>)

\* C3: a call with m arguments of a function, a bound method or clock with
\* n # m parameters ends the run with the runtime error "Expected n
\* arguments but got m."; the step writes nothing and leaves every frame's
\* variables and every instance's fields as they were (the body never
\* runs), and so it is at the end of the run.  With n = m the body runs.
C3_ArityMismatch ==
    /\ [](FileDone("arity") =>
            IF source.a # source.b
            THEN /\ result = RuntimeErrorResult(1, ArityMessage(source.a, source.b))
                 /\ exit = "err"
                 /\ st.out = Printed(<<"before">>)
                 /\ source.c # 2 => Global("g") = Number(F64(0))
                 /\ source.c = 1 => st.insts[Global("o").v].fields = EmptyMap
            ELSE /\ exit = "ok"
                 /\ st.out = Printed(IF source.c = 2 THEN <<"before", "after">>
                                     ELSE <<"before", "body", "after">>))
    /\ [][ArityMismatchStep =>
            /\ st'.out = st.out
            /\ \A i \in 1..Len(st.envs) : st'.envs[i] = st.envs[i]
            /\ \A i \in 1..Len(st.insts) : st'.insts[i] = st.insts[i]
            /\ result' = RuntimeErrorResult(1, ArityMessage(source.a, source.b))]_vars

\* C3 witness: the method of two parameters called with one argument.
C3_Witness ==
    /\ FileDone("arity")
    /\ source.a = 2 /\ source.b = 1 /\ source.c = 1
    /\ result = RuntimeErrorResult(1, "Expected 2 arguments but got 1.")
    /\ st.out = Printed(<<"before">>)

\* C4: the method init invoked on an instance o, directly, through the
\* stored bound method or by calling the class, returns that instance
\* whether its body falls off the end or runs a bare return; the body has
\* run up to the return.  A function named init that was declared by fun,
\* also one stored in a field or nested in a method, returns what its
\* body returns.
C4_InitReturnsInstance ==
    FileDone("init") =>
        /\ exit = "ok"
        /\ source.a \in 0..3 /\ source.b \in {0, 1} =>
              /\ Global("o").t = "Instance"
              /\ Global("r") = Global("o")
        /\ source.a \in 0..3 /\ source.b = 2 =>
              /\ Global("r").t = "Instance"
              /\ Global("r") # Global("o")
              /\ st.insts[Global("r").v].class = Global("K").v
        /\ source.a = 2 => st.insts[Global("o").v].fields = "f" :> Number(F64(1))
        /\ source.a = 3 => st.insts[Global("o").v].fields = "x" :> Number(F64(5))
        /\ source.a \in {4, 6, 7} => Global("r") = Number(F64(7))
        /\ source.a = 5 => Global("r") = Nil

\* C4 witness: o.init() ran the bare return and gave o back.
C4_Witness ==
    /\ FileDone("init")
    /\ source.a = 2 /\ source.b = 0
    /\ Global("r") = Global("o")
    /\ Global("r").t = "Instance"

\* X and Y denote the same number (not NaN), string, boolean, nil, or the
\* same function, class or instance object.
EqSame(a, b) ==
    /\ EqOperands[a].key = EqOperands[b].key
    /\ EqOperands[a].key # "nan"

\* C5: X == Y is true exactly when X and Y are the same number (NaN
\* excluded), string, boolean or nil, or the same callable, class or
\* instance object; values of different kinds are never equal; X != Y is
\* the negation.  (Violated: an instance is not equal to itself.)
C5_EqualityIsIdentity ==
    FileDone("eq") =>
        /\ exit = "ok"
        /\ Global("r") = Boolean(EqSame(source.a, source.b))
        /\ Global("n") = Boolean(~EqSame(source.a, source.b))

\* C5, without the comparisons of an instance with an instance: what the
\* program does implement.
C5_EqualityExceptInstances ==
    FileDone("eq") /\ ~(EqOperands[source.a].key \in {"i", "j"}
                        /\ EqOperands[source.b].key \in {"i", "j"}) =>
        /\ exit = "ok"
        /\ Global("r") = Boolean(EqSame(source.a, source.b))
        /\ Global("n") = Boolean(~EqSame(source.a, source.b))

\* An instance compared with itself, and with a second variable holding
\* it, is unequal.
C5_InstanceUnequalToItself ==
    /\ FileDone("eq")
    /\ EqOperands[source.a].key = "i" /\ EqOperands[source.b].key = "i"
    /\ Global("i").t = "Instance"
    /\ Global("r") = Boolean(FALSE)
    /\ Global("n") = Boolean(TRUE)

\* The value of the i-th operand, and whether it is nil or false.
LogicalValue(i) == IF i = 1 THEN Nil ELSE LogicalValues[i].value

LogicalFalsy(i) == i \in {1, 2}

\* The left operand decides: falsy for `and`, truthy for `or`.
LogicalDecided(src) == IF src.c = 0 THEN LogicalFalsy(src.a) ELSE ~LogicalFalsy(src.a)

\* C6: `L() and R()` and `L() or R()` evaluate L() exactly once; when the
\* left value decides (falsy for and, truthy for or) R() is not evaluated
\* and the result is the left value itself; otherwise R() is evaluated
\* once and the result is its value itself, not a boolean.
C6_ShortCircuit ==
    FileDone("logical") =>
        /\ exit = "ok"
        /\ IF LogicalDecided(source)
           THEN /\ st.out = Printed(<<"L">>)
                /\ Global("r") = LogicalValue(source.a)
           ELSE /\ st.out = Printed(<<"L", "R">>)
                /\ Global("r") = LogicalValue(source.b)

\* C6 witness: "s" or nil printed L only and gave "s".
C6_Witness ==
    /\ FileDone("logical")
    /\ source.c = 1 /\ source.a = 6 /\ source.b = 1
    /\ st.out = Printed(<<"L">>)
    /\ Global("r") = String("s")

\* What each program of the family wrote before its error, and the error.
ErrorExpected(a) ==
    CASE a = 1 -> [out |-> <<"x">>, message |-> "Incompatible operands."]
      [] a = 2 -> [out |-> <<"in", "out", "1", "in">>,
                   message |-> "Can only call functions and classes."]
      [] a = 3 -> [out |-> <<"i">>, message |-> "Undefined variable 'undefinedvar'."]
      [] a = 4 -> [out |-> <<"1">>, message |-> "Operand must be a number."]
      [] a = 5 -> [out |-> <<"x">>, message |-> "Only instances have properties."]
      [] a = 6 -> [out |-> <<"x">>, message |-> "Incompatible operands."]
      [] a = 7 -> [out |-> <<"x">>, message |-> "Undefined variable 'x'."]

\* C7: once a runtime error is raised, in any program and at any depth of
\* blocks, loops and calls, no statement executes and nothing is written
\* or assigned after it: the run has returned exactly that one error, and
\* the output, the frames and the instances are as they were when it was
\* raised, so what was written and assigned before stays.
C7_RuntimeErrorAborts ==
    /\ Len(st.raised) <= 1
    /\ Len(st.raised) = 1 =>
          /\ pc \in {"returned", "exited"}
          /\ statements = <<>>
          /\ result = [tag |-> "Err",
                       val |-> [kind |-> "RuntimeError",
                                details |-> << st.raised[1].detail >>]]
          /\ st.out = st.raised[1].out
          /\ st.envs = st.raised[1].envs
          /\ st.insts = st.raised[1].insts
          /\ st.steps = st.raised[1].steps
    /\ FileDone("error") =>
          /\ exit = "err"
          /\ result = RuntimeErrorResult(1, ErrorExpected(source.a).message)
          /\ st.out = Printed(ErrorExpected(source.a).out)
          /\ source.a = 1 => Global("a") = Number(F64(1))
          /\ source.a = 2 => Global("a") = Number(F64(2))
          /\ source.a = 3 => /\ Global("o") = Number(F64(0))
                             /\ st.insts[1].fields = "f" :> Number(F64(1))

\* C7 witness: the error raised in a block of a function called from a
\* loop ended the run after the loop's first turn.
C7_Witness ==
    /\ FileDone("error")
    /\ source.a = 2
    /\ Len(st.raised) = 1
    /\ st.out = Printed(<<"in", "out", "1", "in">>)
    /\ Global("a") = Number(F64(2))

\* C8: at the prompt an error of a line, reported by the scanner, the
\* parser, the resolver or the run, ends that line only: the session goes
\* on to the next line and ends on end of input or interrupt.  (Violated:
\* run_prompt returns the line's error and the session ends.)
C8_PromptSurvivesErrors ==
    /\ mode = "prompt" /\ pc = "exited" /\ result.tag = "Err" =>
          result.val.kind = "ReadlineError"
    /\ mode = "prompt" /\ pc = "readline" => result.tag # "Err"

\* The first line typed raised a runtime error and the session ended with
\* it, though more lines could be typed.
C8_SessionEndedByError ==
    /\ mode = "prompt" /\ pc = "exited" /\ exit = "err"
    /\ lines = 1 /\ lines < MaxLines
    /\ result.tag = "Err" /\ result.val.kind = "RuntimeError"

\* The levels, from the receiver's class upwards, that declare the method.
Owners(mask, from) == {l \in 0..from : Bit(mask, l)}

Nearest(S) == CHOOSE l \in S : \A k \in S : k <= l

\* C9: o.m is the field m when o has one, also when its classes declare a
\* method m; otherwise the method m of the nearest class, from o's class
\* upwards, that declares one, bound to o (its this.tag is o's); otherwise
\* the runtime error "Undefined property 'm'.".
C9_PropertyLookup ==
    FileDone("prop") =>
        IF source.c = 1
        THEN /\ exit = "ok"
             /\ Global("p") = String("F")
        ELSE IF Owners(source.a, source.b) = {}
        THEN /\ result = RuntimeErrorResult(1, "Undefined property 'm'.")
             /\ "p" \notin DOMAIN st.envs[InterpreterCtx.globals].values
        ELSE /\ exit = "ok"
             /\ Global("p").t = "Callable"
             /\ Global("r") =
                   String(PropClasses[Nearest(Owners(source.a, source.b)) + 1] \o "t")

\* C9 witness: an instance of C, where A and B declare m, got B's.
C9_Witness ==
    /\ FileDone("prop")
    /\ source.a = 3 /\ source.b = 2 /\ source.c = 0
    /\ Global("r") = String("Bt")

\* C10: super.method() in B.test starts at B's superclass A whatever the
\* receiver's class: for an instance of B and for one of C it runs the
\* method of the nearest class from A upwards, also when B or C declare
\* method, with this bound to the receiver; when no class from A upwards
\* declares it, the runtime error "Undefined property 'method'.".
C10_SuperLookup ==
    FileDone("super") =>
        IF Owners(source.a, 1) = {}
        THEN result = RuntimeErrorResult(1, "Undefined property 'method'.")
        ELSE /\ exit = "ok"
             /\ st.classes[st.insts[Global("o").v].class].name
                   = SuperClasses[source.b + 1]
             /\ Global("r") = String(SuperClasses[Nearest(Owners(source.a, 1)) + 1] \o "t")

\* C10 witness: C().test(), where A, B and C declare method, ran A's.
C10_Witness ==
    /\ FileDone("super")
    /\ source.a = 14 /\ source.b = 3
    /\ Global("r") = String("At")

\* The class called, the levels from it upwards that declare init, and
\* the parameter count a call must match.
InstReceiver(src) == src.a \div 4

InstOwners(src) == Owners(src.a % 4, InstReceiver(src))

InstArity(src) ==
    IF InstOwners(src) = {} THEN 0 ELSE InstParams(Nearest(InstOwners(src)), src.b)

InstOwner(src) == InstClasses[Nearest(InstOwners(src)) + 1]

\* C11: calling a class with m arguments, where N is the parameter count
\* of the nearest init from the class upwards (0 when there is none): with
\* m = N the call returns a new instance of the class, with no fields when
\* there is no init, and otherwise with what that init, run once with the
\* arguments and this bound to the new instance, has set; with m # N the
\* call is the runtime error "Expected N arguments but got M." and init has
\* not run (nothing printed, g and every instance untouched).
C11_ClassCall ==
    FileDone("inst") =>
        IF InstArity(source) # source.c
        THEN /\ result = RuntimeErrorResult(1, ArityMessage(InstArity(source), source.c))
             /\ st.out = Printed(<<"before">>)
             /\ Global("g") = Number(F64(0))
             /\ "o" \notin DOMAIN st.envs[InterpreterCtx.globals].values
             /\ \A i \in 1..Len(st.insts) : st.insts[i].fields = EmptyMap
        ELSE /\ exit = "ok"
             /\ Global("o").t = "Instance"
             /\ Len(st.insts) = 1
             /\ st.classes[st.insts[Global("o").v].class].name
                   = InstClasses[InstReceiver(source) + 1]
             /\ IF InstOwners(source) = {}
                THEN /\ st.insts[Global("o").v].fields = EmptyMap
                     /\ st.out = Printed(<<"before", "after">>)
                     /\ Global("g") = Number(F64(0))
                ELSE /\ st.out = Printed(<<"before", InstOwner(source), "after">>)
                     /\ Global("g") = Number(F64(1))
                     /\ st.insts[Global("o").v].fields =
                           IF source.c > 0
                           THEN ("k" :> String(InstOwner(source)))
                                @@ ("x" :> Number(F64(source.c)))
                           ELSE "k" :> String(InstOwner(source))

\* C11 witness: B(1), where only A declares init, of one parameter, ran
\* A's init on the new instance of B.
C11_Witness ==
    /\ FileDone("inst")
    /\ source.a = 5 /\ source.b = 1 /\ source.c = 1
    /\ st.out = Printed(<<"before", "A", "after">>)
    /\ st.insts[Global("o").v].fields = ("k" :> String("A")) @@ ("x" :> Number(F64(1)))

\* C11 witness of the failing call: A(1, 2) with init of one parameter.
C11_Mismatch ==
    /\ FileDone("inst")
    /\ source.a = 1 /\ source.b = 1 /\ source.c = 2
    /\ result = RuntimeErrorResult(1, "Expected 1 arguments but got 2.")

\* The frame a block program's block is executed in, and the block's own.
BlockOuter(src) == IF src.b = 0 THEN InterpreterCtx.env ELSE 2

BlockInner(src) == BlockOuter(src) + 1

\* C12: the block's statements ran in a new frame whose parent is the
\* frame the block was executed in; var a of the block shadowed the outer a
\* (the assignment then went to the block's a and the outer a kept 1); the
\* block's c is unknown after the block; the outer frame holds after the
\* block the names it held before, changed only where the block assigned
\* them.  Scenario b prints 2 then 1.
C12_BlockFrame ==
    /\ FileDone("block") =>
          /\ result = RuntimeErrorResult(1, "Undefined variable 'c'.")
          /\ st.out = Printed(<< ToString(10 + source.c), "5",
                                 IF source.a = 1 THEN "1" ELSE ToString(10 + source.c),
                                 ToString(20 + source.c) >>)
          /\ Len(st.envs) = BlockInner(source)
          /\ st.envs[BlockInner(source)].maybe_enclosing = Some(BlockOuter(source))
          /\ st.envs[BlockInner(source)].values =
                IF source.a = 1
                THEN ("a" :> Number(F64(10 + source.c))) @@ ("c" :> Number(F64(5)))
                ELSE "c" :> Number(F64(5))
          /\ DOMAIN st.envs[BlockOuter(source)].values =
                IF source.b = 0 THEN {"clock", "a", "b"} ELSE {"a", "b"}
          /\ st.envs[BlockOuter(source)].values["a"] =
                IF source.a = 1 THEN Number(F64(1)) ELSE Number(F64(10 + source.c))
          /\ st.envs[BlockOuter(source)].values["b"] = Number(F64(20 + source.c))
          /\ DOMAIN st.envs[InterpreterCtx.globals].values =
                CASE source.b = 0 -> {"clock", "a", "b"}
                  [] source.b = 1 -> {"clock"}
                  [] source.b = 2 -> {"clock", "f"}
    /\ FileDone("scenario") /\ source.a = 2 =>
          /\ exit = "ok"
          /\ st.out = Printed(<<"2", "1">>)

\* C12 witness: in the frame of a call, the block declared its own a and
\* assigned it 12; the call's a is still 1 and its b is 22.
C12_Witness ==
    /\ FileDone("block")
    /\ source.a = 1 /\ source.b = 2 /\ source.c = 2
    /\ st.envs[3].values["a"] = Number(F64(12))
    /\ st.envs[2].values["a"] = Number(F64(1))
    /\ st.envs[2].values["b"] = Number(F64(22))

\* Interpreter::run has returned for a source file of the family.
RunDone(fam) == mode = "file" /\ pc \in {"returned", "exited"} /\ source.fam = fam

\* The resolver's verdict: n errors, each at line 1 with the message.
ResolverErrors(n, message) ==
    [tag |-> "Err",
     val |-> [kind |-> "ResolverErrors",
              details |-> [i \in 1..n |-> ErrorDetail(1, message)]]]

\* The run was not stopped by the resolver.
ResolverAccepted == result.tag = "Ok" \/ result.val.kind = "RuntimeError"

\* How many variable expressions of a read program are resolved while the
\* innermost scope holds their name as Declared.
ReadDeclared(src) ==
    CASE src.b = 4 -> 1
      [] src.b = 0 /\ src.a > 0 -> 1
      [] src.b = 5 /\ src.a > 0 -> 2
      [] OTHER -> 0

\* C13: the resolver reports "Can't read local variable in its own
\* initializer." once for each variable expression resolved while the
\* scope stack is not empty and the innermost scope holds the name as
\* Declared, and it reports nothing else for these programs: reading in an
\* initializer a name at the global level, a name Defined in the innermost
\* scope, a name of an outer scope or a name no scope holds is accepted.
C13_OwnInitializer ==
    RunDone("read") =>
        IF ReadDeclared(source) > 0
        THEN /\ result = ResolverErrors(ReadDeclared(source),
                             "Can't read local variable in its own initializer.")
             /\ st.steps = 0
        ELSE ResolverAccepted

\* C13 witness: var x = 1; { var x = x; } at the global level is rejected
\* with one error.
C13_Witness ==
    /\ RunDone("read")
    /\ source.a = 0 /\ source.b = 4
    /\ result = ResolverErrors(1, "Can't read local variable in its own initializer.")

\* C13 witness of an accepted read: { var x = 1; var y = x; } has run.
C13_Accepted ==
    /\ RunDone("read")
    /\ source.a = 1 /\ source.b = 1
    /\ result.tag = "Ok"

\* How many declarations of a redeclare program name something the
\* innermost scope already holds.
Redeclared(src) ==
    CASE src.b \in {4, 5} -> 1
      [] src.b = 6 -> 0
      [] src.b = 7 /\ src.a > 0 -> 2
      [] src.b \in 0..3 /\ src.a > 0 -> 1
      [] OTHER -> 0

\* C14: a var, fun, class or parameter declaration of a name the innermost
\* scope already holds is reported, once each, as "Already a variable with
\* this name in this scope." when the scope stack is not empty; a
\* declaration of the name in an inner scope is not.  At the global level
\* redeclaring is accepted and the later definition is the one that stays.
C14_Redeclaration ==
    /\ \A state \in {"Declared", "Defined"} :
          Declare(BeginScope(ScopesNew), "x", 1) =
              [ScopesNew EXCEPT !.scopes = << "x" :> "Declared" >>]
          /\ Declare([ScopesNew EXCEPT !.scopes = << "x" :> state >>], "x", 1) =
                [ScopesNew EXCEPT
                    !.scopes = << "x" :> state >>,
                    !.errors = << ErrorDetail(1,
                        "Already a variable with this name in this scope.") >>]
    /\ RunDone("redeclare") =>
        IF Redeclared(source) > 0
        THEN /\ result = ResolverErrors(Redeclared(source),
                             "Already a variable with this name in this scope.")
             /\ st.steps = 0
        ELSE /\ result.tag = "Ok"
             /\ source.a = 0 =>
                  CASE source.b \in {0, 3} -> Global("x") = Number(F64(2))
                    [] source.b = 1 -> /\ Global("x").t = "Callable"
                                       /\ st.funs[Global("x").v].name = "x"
                    [] source.b = 2 -> /\ Global("x").t = "Class"
                                       /\ st.classes[Global("x").v].name = "x"
                    [] source.b = 6 -> Global("x") = Number(F64(1))
                    [] source.b = 7 -> Global("x") = Nil

\* C14 witness: fun f() { var x = 1; fun x() {} } is rejected with one
\* error.
C14_Witness ==
    /\ RunDone("redeclare")
    /\ source.a = 2 /\ source.b = 1
    /\ result = ResolverErrors(1, "Already a variable with this name in this scope.")

\* C14 witness at the global level: var x = 1; var x = 2; left x = 2.
C14_GlobalOverwrite ==
    /\ FileDone("redeclare")
    /\ source.a = 0 /\ source.b = 0
    /\ exit = "ok"
    /\ Global("x") = Number(F64(2))

\* The return statements of a return program that are outside every
\* function, and those that carry a value with an initializer as the
\* innermost enclosing function.
ReturnsAtTopLevel(kind) == IF kind \in {0, 1, 2, 3, 14} THEN 1 ELSE 0

ReturnsOfValueInInit(kind) ==
    CASE kind \in {7, 11, 13} -> 1
      [] kind = 12 -> 2
      [] OTHER -> 0

\* C15: the resolver reports "Can't return from top-level code." for each
\* return outside every function (also in a block or a loop), and "Can't
\* return a value from an initializer." for each return with a value whose
\* innermost enclosing function is a method named init; returns in
\* functions and methods, a bare return in init, a return with a value in
\* a function nested in init and one in a function named init are accepted.
C15_ReturnErrors ==
    RunDone("return") =>
        IF ReturnsAtTopLevel(source.a) > 0
        THEN result = ResolverErrors(ReturnsAtTopLevel(source.a),
                                     "Can't return from top-level code.")
        ELSE IF ReturnsOfValueInInit(source.a) > 0
        THEN result = ResolverErrors(ReturnsOfValueInInit(source.a),
                                     "Can't return a value from an initializer.")
        ELSE result = [tag |-> "Ok", val |-> 0]

\* C15 witness: class K { init() { return 1; } } is rejected.
C15_Witness ==
    /\ RunDone("return")
    /\ source.a = 7
    /\ result = ResolverErrors(1, "Can't return a value from an initializer.")

\* C15 witness of the accepted return of a value in a function nested in
\* init.
C15_NestedAccepted ==
    /\ RunDone("return")
    /\ source.a = 8
    /\ result.tag = "Ok"

\* The `this` node of a this program's method, as the resolver leaves it.
ThisNode(kind, s) ==
    CASE kind = 3 -> s[1].methods["m"].statements[1].maybe_expression[1]
      [] kind = 4 -> s[1].methods["m"].statements[1].statements[1].maybe_expression[1]
      [] kind = 5 -> s[1].methods["m"].statements[1].statements[1].statements[1]
                         .maybe_expression[1]
      [] kind = 6 -> s[2].methods["m"].statements[1].maybe_expression[1]
      [] kind = 7 -> s[1].statements[1].methods["m"].statements[1].maybe_expression[1]
      [] kind = 8 -> s[1].methods["m"].statements[1].methods["n"].statements[1]
                         .maybe_expression[1]

\* The scopes between the node and the scope that defines this.
ThisDistance(kind) ==
    CASE kind = 4 -> 2
      [] kind = 5 -> 3
      [] OTHER -> 1

ThisOutsideClass(kind) ==
    CASE kind \in {0, 1, 2, 9} -> 1
      [] kind = 10 -> 2
      [] OTHER -> 0

\* C16: the resolver reports "Can't use 'this' outside of a class." for
\* each this resolved with no class open: at the top level, in a block, in
\* a plain function and after a class has ended.  In a method, also in a
\* function or block nested in it, in a subclass, in a class declared in a
\* function or in a method, there is no error, the node's resolution is
\* the distance of the nearest scope that defines this, never None, and
\* the run binds it to the receiver.
C16_ThisOutsideClass ==
    RunDone("this") =>
        IF ThisOutsideClass(source.a) > 0
        THEN /\ result = ResolverErrors(ThisOutsideClass(source.a),
                                        "Can't use 'this' outside of a class.")
             /\ st.steps = 0
        ELSE /\ result = [tag |-> "Ok", val |-> 0]
             /\ ThisNode(source.a, Resolve(source.statements).val).maybe_distance
                   = Some(ThisDistance(source.a))
             /\ Global("r").t = "Instance"
             /\ source.a \in 3..6 => Global("r") = Global("o")
             /\ source.a = 8 =>
                   /\ Global("r") # Global("o")
                   /\ st.classes[st.insts[Global("r").v].class].name = "J"

\* C16 witness: this in a function nested in a method resolved to
\* distance 2 and the call returned the receiver.
C16_Witness ==
    /\ RunDone("this")
    /\ source.a = 4
    /\ ThisNode(4, Resolve(source.statements).val).maybe_distance = Some(2)
    /\ Global("r") = Global("o")

\* C16 witness of the error: fun f() { return this; } is rejected.
C16_PlainFunction ==
    /\ RunDone("this")
    /\ source.a = 1
    /\ result = ResolverErrors(1, "Can't use 'this' outside of a class.")

\* The super node of a super program's method, as the resolver leaves it
\* (the callee of the returned call).
SuperNode(kind, s) ==
    CASE kind = 3 -> s[2].methods["t"].statements[1].maybe_expression[1].callee
      [] kind = 4 -> s[2].methods["t"].statements[1].statements[1]
                         .maybe_expression[1].callee
      [] kind = 5 -> s[2].methods["t"].statements[1].statements[1].statements[1]
                         .maybe_expression[1].callee
      [] kind = 7 -> s[2].methods["t"].statements[1].methods["n"].statements[1]
                         .maybe_expression[1].callee

\* The scopes between the node and the scope that defines super: the
\* scope of this, the scope of the method, and each nested scope.
SuperDistance(kind) ==
    CASE kind \in {3, 7} -> 2
      [] kind = 4 -> 3
      [] kind = 5 -> 4

\* C17: a super outside every class is one resolver error; a super whose
\* innermost enclosing class names no superclass is "Can't use 'super' in
\* a class with no superclass.", also when that class is declared in a
\* method of a subclass; in a subclass it is accepted, its resolution is
\* the distance of the scope that defines super, which is at least 2, and
\* the evaluation finds the superclass and the receiver without a panic.
C17_SuperOutsideSubclass ==
    RunDone("superuse") =>
        CASE source.a \in {0, 1, 8} ->
                /\ result.tag = "Err"
                /\ result.val.kind = "ResolverErrors"
                /\ Len(result.val.details) = 1
                /\ st.steps = 0
          [] source.a \in {2, 6, 9} ->
                /\ result = ResolverErrors(1,
                       "Can't use 'super' in a class with no superclass.")
                /\ st.steps = 0
          [] OTHER ->
                /\ result = [tag |-> "Ok", val |-> 0]
                /\ SuperNode(source.a, Resolve(source.statements).val).maybe_distance
                      = Some(SuperDistance(source.a))
                /\ Global("r") = String("A")

\* C17 witness: super in a function nested in a method of B < A resolved
\* to distance 3 and the call reached A's method.
C17_Witness ==
    /\ RunDone("superuse")
    /\ source.a = 4
    /\ SuperNode(4, Resolve(source.statements).val).maybe_distance = Some(3)
    /\ Global("r") = String("A")

\* C17 witness of the error: super in a class with no superclass that is
\* declared in a method of a subclass.
C17_InnerClass ==
    /\ RunDone("superuse")
    /\ source.a = 6
    /\ result = ResolverErrors(1, "Can't use 'super' in a class with no superclass.")

\* Where parsing resumes after a failure that left the parser at `from`:
\* just after the first `;` at or after `from`, or at the first of the
\* eight keywords, whichever comes first, or at the end.
ResumeAt(tokens, from) ==
    LET stops == {j \in from..Len(tokens) :
                     tokens[j].ty \in {"Semicolon", "Class", "Fun", "Var", "For", "If",
                                       "While", "Print", "Return"}}
        first == CHOOSE j \in stops : \A k \in stops : j <= k
    IN  IF stops = {} THEN Len(tokens) + 1
        ELSE IF tokens[first].ty = "Semicolon" THEN first + 1 ELSE first

\* The errors of the texts of SyncWords, in the order they are recorded.
SyncExpected ==
    << <<>>,
       << ErrorDetail(1, "Expect expression.") >>,
       << ErrorDetail(1, "Expect 'Semicolon'.") >>,
       << ErrorDetail(1, "Expect expression.") >>,
       << ErrorDetail(1, "Expect 'Identifier'.") >>,
       << ErrorDetail(1, "Expect function name.") >>,
       << ErrorDetail(1, "Expect expression.") >>,
       << ErrorDetail(1, "Expect expression."), ErrorDetail(1, "Expect expression.") >>,
       << ErrorDetail(1, "Invalid assignment target.") >>,
       << ErrorDetail(1, "Invalid assignment target."),
          ErrorDetail(1, "Expect expression.") >>,
       << ErrorDetail(1, "Expect expression."), ErrorDetail(3, "Expect 'Semicolon'.") >>,
       << ErrorDetail(2, "Expect 'Semicolon'.") >>,
       << ErrorDetail(1, "Expect expression.") >>,
       << ErrorDetail(1, "Expect 'Semicolon'.") >>,
       << ErrorDetail(1, "Expect expression.") >>,
       << ErrorDetail(1, "Expect 'Semicolon'."), ErrorDetail(3, "Expect 'RightParen'.") >>,
       <<>>,
       << ErrorDetail(1, "Expect 'Semicolon'.") >>,
       << ErrorDetail(1, "Invalid assignment target."),
          ErrorDetail(1, "Invalid assignment target."),
          ErrorDetail(1, "Expect expression.") >> >>

\* parse has returned for a source given by its tokens.
Parsed == Len(source.tokens) > 0 /\ pc \in {"exec", "returned"}

SyntaxErrors(details) ==
    [tag |-> "Err", val |-> [kind |-> "SyntaxErrors", details |-> details]]

\* What parse returned is the errors it recorded when there are any, and
\* then no statement is executed; with none the run goes on.
ParseReturns ==
    Parsed =>
        /\ Len(parser.errors) > 0 =>
              /\ pc = "returned"
              /\ result = SyntaxErrors(parser.errors)
              /\ st.steps = 0
        /\ Len(parser.errors) = 0 =>
              result.tag \in {"None", "Ok"} \/ result.val.kind # "SyntaxErrors"
        /\ source.fam = "sync" /\ source.a > 0 => parser.errors = SyncExpected[source.a]
        /\ source.fam = "sync" /\ source.a = 0 =>
              parser.errors
                  = << ErrorDetail(1, IF source.b = 1
                                      THEN "Can't have more than 255 arguments."
                                      ELSE "Can't have more than 255 parameters.") >>

\* A turn of parse's loop in which the declaration failed: one error is
\* added after those the declaration recorded itself, no statement is
\* added, and the next token is the one parsing resumes at.
ParseRecovers ==
    pc = "parse" /\ pc' = "parse" /\ statements' = statements =>
        /\ Declaration(parser).tag = "Err"
        /\ Len(parser'.errors) > Len(parser.errors)
        /\ parser'.errors = Append(Declaration(parser).p.errors, Declaration(parser).val)
        /\ parser'.pos > parser.pos
        /\ parser'.pos = ResumeAt(parser.tokens, Declaration(parser).p.pos)

\* C18: a declaration that fails to parse adds one error and parsing
\* resumes just after the next `;` or at the next of class, fun, var, for,
\* if, while, print, return, whichever comes first; parse returns
\* Err(SyntaxErrors) with every recorded error, those that do not end a
\* declaration included, when there is one, and Ok only when there is
\* none.
C18_Synchronize == []ParseReturns /\ [][ParseRecovers]_vars

\* C18 witness: var = 1; x; var y; failed at `=`, the parser holds one
\* error and resumed at x, the fifth token.
C18_Witness ==
    /\ pc = "parse"
    /\ source.fam = "sync"
    /\ source.a = 5
    /\ parser.errors = << ErrorDetail(1, "Expect 'Identifier'.") >>
    /\ parser.pos = 5
    /\ statements = <<>>

\* C18 witness of the errors that do not end a declaration: the call with
\* 256 arguments was parsed as a statement and parse returned the error.
C18_TooManyArguments ==
    /\ pc = "returned"
    /\ source.fam = "sync"
    /\ source.a = 0
    /\ source.b = 1
    /\ result = SyntaxErrors(<< ErrorDetail(1, "Can't have more than 255 arguments.") >>)

\* What the texts of AssignWords stand for: an Assign for a variable on
\* the left, with the line of its `=`, nested to the right; a Set for a
\* property on the left; the left-hand side alone for any other.
AssignStatements ==
    << << ExprS(AssignExpression("a", Num(1), 1)) >>,
       << ExprS(AssignExpression("a", Num(1), 2)) >>,
       << ExprS(AssignExpression("a", AssignExpression("b", Num(1), 2), 1)) >>,
       << ExprS(Num(1)) >>,
       << ExprS(GroupingExpression(Var("a"))) >>,
       << ExprS(Bin(Var("a"), "Add", Var("b"))), PrintStatement(Num(2), 2) >>,
       << ExprS(CallE(Var("f"), <<>>)) >>,
       << ExprS(AssignExpression("a", Num(1), 1)) >>,
       << ExprS(SetExpression(Var("o"), "f", Num(1), 1)) >>,
       << ExprS(SetExpression(Var("o"), "f",
                              SetExpression(Var("p"), "g", Num(1), 1), 1)) >> >>

\* The line of the `=` whose left-hand side is no target, if there is one.
AssignErrors ==
    << <<>>, <<>>, <<>>,
       << ErrorDetail(1, "Invalid assignment target.") >>,
       << ErrorDetail(1, "Invalid assignment target.") >>,
       << ErrorDetail(2, "Invalid assignment target.") >>,
       << ErrorDetail(1, "Invalid assignment target.") >>,
       << ErrorDetail(1, "Invalid assignment target.") >>,
       <<>>, <<>> >>

\* The loop of parse has used up the tokens of an assignment text.
AssignParsed ==
    /\ pc = "parse"
    /\ source.fam = "assign"
    /\ ~IsSome(Peek(parser))

\* C19: with `=` after the left-hand side, a Variable gives an Assign and
\* a Get gives a Set; any other left-hand side records the invalid target
\* at the line of the `=`, the right-hand side is parsed and the statement
\* is the left-hand side; a = b = 1 assigns (b = 1) to a.  (Violated: the
\* parser has no rule for `.`, so o.f = 1; is a syntax error.)
C19_AssignmentTargets ==
    AssignParsed =>
        /\ statements = AssignStatements[source.a]
        /\ parser.errors = AssignErrors[source.a]

\* The tokens of o.f = 1; are used up, no statement was parsed and the
\* `.` was rejected where a `;` was expected.
C19_PropertyTargetRejected ==
    /\ AssignParsed
    /\ source.a = 9
    /\ statements = <<>>
    /\ parser.errors = << ErrorDetail(1, "Expect 'Semicolon'.") >>

\* The part of C19 the parser does implement holds for the other texts.
C19_VariableTargets ==
    AssignParsed /\ source.a <= 8 =>
        /\ statements = AssignStatements[source.a]
        /\ parser.errors = AssignErrors[source.a]

\* What the for texts print, line by line.
ForPrinted ==
    << << "0", "1", "2" >>,
       << "0", "1" >>,
       << "0", "1" >>,
       << "1", "0" >>,
       << "0", "1", "2" >>,
       << "2" >>,
       << "0", "1" >>,
       << "1" >>,
       << "0", "1", "2", "3", "1", "2", "3", "1" >>,
       << "0" >> >>

\* The loop of parse has used up the tokens of a for text.
ForParsed ==
    /\ pc = "parse"
    /\ source.fam = "for"
    /\ ~IsSome(Peek(parser))

\* C20: a for statement is parsed to the statements of the block
\* { init; while (cond) { body; incr; } }, with true for a missing cond
\* and without a missing init or incr, and both run alike: init once, then
\* cond, body, incr in that order while cond is truthy; the variable of
\* init is one variable for all turns, seen by a closure of any turn with
\* its last value, and is not defined after the loop (an outer variable of
\* the same name is untouched); a return in the body leaves the loop
\* before incr.
C20_ForDesugaring ==
    /\ ForParsed =>
          /\ parser.errors = <<>>
          /\ statements = Parse(Tokens(ForBlockWords[source.a])).val
    /\ RunDone("for") =>
          /\ st.out = Printed(ForPrinted[source.a])
          /\ "i" \in DOMAIN st.envs[InterpreterCtx.globals].values
                => source.a \in {2, 5, 7}
          /\ IF source.a = 10
             THEN result = RuntimeErrorResult(1, "Undefined variable 'i'.")
             ELSE result = [tag |-> "Ok", val |-> 0]

\* C20 witness: the for statement with a return in its body and no cond
\* was run in f: f returned 1 and k, which incr would have raised, is 0.
C20_Witness ==
    /\ RunDone("for")
    /\ source.a = 4
    /\ source.b = 0
    /\ st.out = Printed(<< "1", "0" >>)
    /\ Global("k") = Number(F64(0))

\* C20 witness of the parse: the for statement with all three clauses is
\* parsed to a block of the var and the while loop.
C20_Parsed ==
    /\ ForParsed
    /\ source.a = 1
    /\ source.b = 0
    /\ Len(statements) = 1
    /\ statements[1].kind = "BlockStatement"
    /\ statements[1].statements[2].kind = "WhileStatement"
    /\ Len(statements[1].statements[2].body.statements) = 2

(***************************************************************************)
(* The scanner's tokens.                                                   *)
(***************************************************************************)
\* The scanner has just scanned a source text with no error: the parser
\* holds its tokens, all but the Eof, and has parsed none yet.
Scanned ==
    /\ pc = "parse"
    /\ Len(source.text) > 0
    /\ parser.pos = 1
    /\ statements = <<>>
    /\ parser.errors = <<>>

\* The lexemes of tokens lo to hi, written out with a space between them.
RECURSIVE Lexemes(_, _, _)
Lexemes(tokens, lo, hi) ==
    IF lo > hi THEN ""
    ELSE IF lo = hi THEN tokens[lo].lexeme
    ELSE Lexemes(tokens, lo, (lo + hi) \div 2) \o " "
         \o Lexemes(tokens, (lo + hi) \div 2 + 1, hi)

TokenTypes(tokens) == [i \in 1..Len(tokens) |-> tokens[i].ty]

\* The token types of the lexemes of the scanned tokens, scanned again.
ScannedAgain ==
    Bind(ScanTokens(Lexemes(parser.tokens, 1, Len(parser.tokens))),
         LAMBDA again : IF again.tag = "Ok" THEN TokenTypes(again.val) ELSE << >>)

\* C21: the lexemes of the tokens the scanner made of a text, written out
\* with whitespace between them and scanned again, give tokens of the same
\* types in the same order, a String token for a String token.
C21_RoundTrip ==
    Scanned => ScannedAgain = TokenTypes(parser.tokens) \o << "Eof" >>

\* C21: the text  print "a b";  was scanned; the lexeme of its String
\* token is a b, without the quotes, and is scanned again as two
\* identifiers.
C21_StringLexeme ==
    /\ Scanned
    /\ source.fam = "text"
    /\ source.a = 1
    /\ TokenTypes(parser.tokens) = << "Print", "String", "Semicolon" >>
    /\ parser.tokens[2].lexeme = "a b"
    /\ ScannedAgain = << "Print", "Identifier", "Identifier", "Semicolon", "Eof" >>

\* C21, the other tokens: a text without a String token is scanned again
\* to the same types.
C21_OtherTokens ==
    (Scanned /\ \A i \in 1..Len(parser.tokens) : parser.tokens[i].ty # "String")
        => ScannedAgain = TokenTypes(parser.tokens) \o << "Eof" >>

\* The texts whose last string literal has no closing quote.
TextsUnterminated == {3, 8, 12}

\* The texts with a closing quote as their last character.
TextsClosedAtEnd == {2}

\* The scanner has scanned a source text.
TextScanned == source.fam = "text" /\ pc \in {"parse", "exec", "returned", "exited"}

\* run returned the scanner's errors, `message` among them.
ScannerReported(message) ==
    /\ result.tag = "Err"
    /\ result.val.kind = "ScannerErrors"
    /\ \E i \in 1..Len(result.val.details) : result.val.details[i].message = message

\* C29: the scanner reports "Unterminated string." exactly for the texts
\* that end before the closing quote of a string literal; a literal with
\* its closing quote is a String token, also when the quote is the last
\* character of the text.
C29_UnterminatedString ==
    TextScanned =>
        (ScannerReported("Unterminated string.") <=> source.a \in TextsUnterminated)

\* C29: the text  print "a"  ends with the closing quote of its string
\* literal, and run returned the scanner error "Unterminated string.".
C29_ClosingQuoteLast ==
    /\ source.fam = "text"
    /\ source.a \in TextsClosedAtEnd
    /\ pc = "returned"
    /\ result = [tag |-> "Err",
                 val |-> [kind |-> "ScannerErrors",
                          details |-> << ErrorDetail(1, "Unterminated string.") >>]]

\* C29, the other texts: when the closing quote is not the last character
\* the report is made exactly for the unterminated literals, at the line
\* where the text ends, and a closed literal is one String token with the
\* characters between the quotes as its value.
C29_ClosedBeforeEnd ==
    /\ (TextScanned /\ source.a \notin TextsClosedAtEnd) =>
          (ScannerReported("Unterminated string.") <=> source.a \in TextsUnterminated)
    /\ (TextScanned /\ source.a = 8 /\ result.tag = "Err") =>
          result.val.details = << ErrorDetail(3, "Unterminated string.") >>
    /\ (Scanned /\ source.a = 4) =>
          /\ parser.tokens[2] = Token("String", "a\nb", Some(LiteralString("a\nb")), 2)
          /\ parser.tokens[4].line = 3
    /\ (Scanned /\ source.a = 9) =>
          /\ parser.tokens[4] = Token("String", "", Some(LiteralString("")), 1)
          /\ parser.tokens[9].ty = "String"
          /\ Len(parser.tokens) = 10

(***************************************************************************)
(* The reference graph of the heap.  Its nodes are the frames, functions,  *)
(* classes and instances; its edges are the Rc fields of each.             *)
(***************************************************************************)
HeapNodes(h) ==
    ({"env"} \X (1..Len(h.envs))) \cup ({"fun"} \X (1..Len(h.funs)))
    \cup ({"class"} \X (1..Len(h.classes))) \cup ({"inst"} \X (1..Len(h.insts)))

\* The object a value holds by Rc, if any.
ValueRefs(v) ==
    CASE v.t = "Callable" -> { << "fun", v.v >> }
      [] v.t = "Class" -> { << "class", v.v >> }
      [] v.t = "Instance" -> { << "inst", v.v >> }
      [] OTHER -> {}

MapRefs(values) == UNION { ValueRefs(values[name]) : name \in DOMAIN values }

\* The frame a Context holds as its env (the native clock holds none).
CtxRefs(ctx) == IF ctx.env = 0 THEN {} ELSE { << "env", ctx.env >> }

References(h, n) ==
    CASE n[1] = "env" ->
            (IF IsSome(h.envs[n[2]].maybe_enclosing)
             THEN { << "env", Unwrap(h.envs[n[2]].maybe_enclosing) >> } ELSE {})
            \cup MapRefs(h.envs[n[2]].values)
      [] n[1] = "fun" -> CtxRefs(h.funs[n[2]].ctx)
      [] n[1] = "class" ->
            CtxRefs(h.classes[n[2]].ctx)
            \cup (IF IsSome(h.classes[n[2]].maybe_superclass)
                  THEN { << "class", Unwrap(h.classes[n[2]].maybe_superclass) >> }
                  ELSE {})
      [] n[1] = "inst" ->
            { << "class", h.insts[n[2]].class >> } \cup MapRefs(h.insts[n[2]].fields)

\* The nodes reached from the nodes of `frontier` by zero or more edges.
RECURSIVE ReachedFrom(_, _, _)
ReachedFrom(h, frontier, seen) ==
    IF frontier \subseteq seen THEN seen
    ELSE Bind(seen \cup frontier,
              LAMBDA all :
                 ReachedFrom(h, UNION { References(h, n) : n \in frontier \ seen }, all))

OnCycle(h, n) == n \in ReachedFrom(h, References(h, n), {})

\* C22: in every state of a run no frame, function, class or instance
\* reaches itself along the references of the heap.
C22_Acyclic == \A n \in HeapNodes(st) : ~OnCycle(st, n)

\* C22: fun f() {} was executed at top level: the global frame stores f
\* and f's captured frame is the global frame, a cycle of two references.
C22_FunctionInCapturedFrame ==
    /\ st.steps > 0
    /\ \E name \in DOMAIN st.envs[InterpreterCtx.globals].values :
          /\ st.envs[InterpreterCtx.globals].values[name].t = "Callable"
          /\ st.funs[st.envs[InterpreterCtx.globals].values[name].v].ctx.env
                = InterpreterCtx.globals
    /\ OnCycle(st, << "env", InterpreterCtx.globals >>)

\* C22, without functions: while no frame stores a function declared by
\* the program or a bound method, a class or an instance, the graph has no
\* cycle.
C22_FramesOnly ==
    (\A i \in 1..Len(st.envs) : \A name \in DOMAIN st.envs[i].values :
        /\ st.envs[i].values[name].t \notin {"Class", "Instance"}
        /\ st.envs[i].values[name].t = "Callable"
              => st.funs[st.envs[i].values[name].v].native)
        => C22_Acyclic

\* { if (true) while (true) { { return 3; } print 4; } print 5; }
UnwindNest ==
    Block(<< If(Bool(TRUE),
                While(Bool(TRUE), Block(<< Block(<< Ret(Num(3)) >>), PrintS(Num(4)) >>))),
             PrintS(Num(5)) >>)

\* C23: a return inside blocks, if branches and while loops of a function
\* body ends the invocation: no later statement of it is executed and no
\* loop condition is evaluated again; each block, if and while gives
\* Return(v) as its own result, and the call gives v, or nil for a bare
\* return and for a body that ends without one; the caller goes on with
\* its next statement.
C23_ReturnUnwinds ==
    /\ RunDone("unwind") =>
          /\ st.out = Printed(UnwindPrinted[source.a])
          /\ result = [tag |-> "Ok", val |-> 0]
    /\ (source.fam = "unwind" /\ pc = "exec") =>
          \E r \in {Exec(UnwindNest, InterpreterCtx, st)} :
              /\ r.tag = "Ok"
              /\ r.val = Return(Number(F64(3)))
              /\ r.st.out = st.out

\* C23 witness: f returned 3 from a while loop in an if branch in a block;
\* 4, 5, 6 and 7 were not printed, and the caller printed 3 and went on.
C23_Witness ==
    /\ RunDone("unwind")
    /\ source.a = 1
    /\ st.out = Printed(<< "1", "2", "3", "8" >>)

(***************************************************************************)
(* Resolutions and the scope stack.                                        *)
(***************************************************************************)
\* The heights of the resolver's scope stack at the Variable and Assign
\* nodes under `node` that have the resolution None, when the stack has
\* the height h at `node`: a block and a function body push one scope, a
\* class one for `this` and one more for `super`.
RECURSIVE GlobalHeights(_, _)
GlobalHeights(node, h) ==
    CASE node.kind = "VariableExpression" ->
            IF IsSome(node.maybe_distance) THEN {} ELSE {h}
      [] node.kind = "AssignExpression" ->
            (IF IsSome(node.maybe_distance) THEN {} ELSE {h})
            \cup GlobalHeights(node.value, h)
      [] node.kind \in {"NegExpression", "NotExpression", "GroupingExpression",
                        "PrintStatement", "ExpressionStatement"} ->
            GlobalHeights(node.expression, h)
      [] node.kind \in {"BinaryExpression", "LogicalExpression"} ->
            GlobalHeights(node.left, h) \cup GlobalHeights(node.right, h)
      [] node.kind = "CallExpression" ->
            GlobalHeights(node.callee, h)
            \cup UNION { GlobalHeights(node.arguments[i], h) :
                            i \in 1..Len(node.arguments) }
      [] node.kind = "GetExpression" -> GlobalHeights(node.object, h)
      [] node.kind = "SetExpression" ->
            GlobalHeights(node.object, h) \cup GlobalHeights(node.value, h)
      [] node.kind = "VarStatement" ->
            IF IsSome(node.initializer)
            THEN GlobalHeights(Unwrap(node.initializer), h) ELSE {}
      [] node.kind = "BlockStatement" ->
            UNION { GlobalHeights(node.statements[i], h + 1) :
                       i \in 1..Len(node.statements) }
      [] node.kind = "IfStatement" ->
            GlobalHeights(node.condition, h) \cup GlobalHeights(node.then_branch, h)
            \cup (IF IsSome(node.else_branch)
                  THEN GlobalHeights(Unwrap(node.else_branch), h) ELSE {})
      [] node.kind = "WhileStatement" ->
            GlobalHeights(node.condition, h) \cup GlobalHeights(node.body, h)
      [] node.kind = "FunctionStatement" ->
            UNION { GlobalHeights(node.statements[i], h + 1) :
                       i \in 1..Len(node.statements) }
      [] node.kind = "ReturnStatement" ->
            IF IsSome(node.maybe_expression)
            THEN GlobalHeights(Unwrap(node.maybe_expression), h) ELSE {}
      [] node.kind = "ClassStatement" ->
            (IF IsSome(node.maybe_superclass)
             THEN GlobalHeights(Unwrap(node.maybe_superclass), h) ELSE {})
            \cup UNION { GlobalHeights(node.methods[name],
                                       IF IsSome(node.maybe_superclass)
                                       THEN h + 2 ELSE h + 1) :
                            name \in DOMAIN node.methods }
      [] OTHER -> {}

\* The resolver has accepted the program in `statements` and no statement
\* was executed yet.
ProgramResolved == pc = "exec" /\ st.steps = 0

ProgramGlobalHeights ==
    UNION { GlobalHeights(statements[i], 0) : i \in 1..Len(statements) }

\* C24 as stated: a Variable or Assign node is left with the resolution
\* None only while the resolver's scope stack is empty.
C24_NoneAtEmptyStack == ProgramResolved => ProgramGlobalHeights \subseteq {0}

\* C24: in  var a = 1; { var b = 2; { print a; a = a + b; } print a; }  the
\* nodes of a are left None at the heights 2 and 1 of the scope stack.
C24_GlobalInsideBlocks ==
    /\ ProgramResolved
    /\ source.fam = "scope"
    /\ source.a = 2
    /\ ProgramGlobalHeights = {0, 1, 2}
    /\ statements[2].statements[2].statements[1].expression.maybe_distance = None
    /\ statements[2].statements[2].statements[2].expression.maybe_distance = None

\* C24 amended: a node is left None when no scope of the stack, empty or
\* not, holds its name, and is then read and assigned in the global frame
\* from any depth of blocks and functions, as the frame holds the name when
\* the node is evaluated; a resolution of 0 is the innermost frame at the
\* evaluation, and n is the frame n parents above it.
C24_GlobalOrLocal ==
    /\ RunDone("scope") =>
          /\ st.out = Printed(ScopePrinted[source.a])
          /\ result = CASE source.a = 6 -> RuntimeErrorResult(2, "Undefined variable 'y'.")
                        [] source.a = 8 -> RuntimeErrorResult(1, "Undefined variable 'a'.")
                        [] OTHER -> [tag |-> "Ok", val |-> 0]
    /\ (ProgramResolved /\ source.fam = "scope" /\ source.a = 3) =>
          /\ ProgramGlobalHeights = {0}
          /\ statements[2].statements[2].expression.maybe_distance = Some(0)
          /\ statements[2].statements[3].statements[2].expression.maybe_distance = Some(0)
          /\ statements[2].statements[4].expression.maybe_distance = Some(0)
    /\ (ProgramResolved /\ source.fam = "scope" /\ source.a = 2) =>
          /\ statements[2].statements[2].statements[2].expression.value.right.maybe_distance
                = Some(1)
          /\ statements[2].statements[3].expression.maybe_distance = None

\* C24 amended, witness: show, declared in a block, read the global a
\* before and after the block declared its own a, and the block then read
\* its own.
C24_Witness ==
    /\ RunDone("scope")
    /\ source.a = 1
    /\ st.out = Printed(<< "g", "g", "b" >>)

(***************************************************************************)
(* Environment on its own: the frames of test_env (env.rs, tests) and      *)
(* calls of define, assign_at and get_at on them.  `result` is the last    *)
(* call and what it returned.                                              *)
(***************************************************************************)
\* test_env: global with a = 1.0, e1 in global, e2 in e1.
TestEnv ==
    Bind(EnvironmentNew(None, [envs |-> <<>>, funs |-> <<>>, classes |-> <<>>,
                               insts |-> <<>>, out |-> <<>>, now |-> 0,
                               raised |-> <<>>, steps |-> 0]),
         LAMBDA global :
    Bind(EnvironmentNew(Some(global.rc),
                        EnvDefine(global.rc, "a", Number(F64(1)), global.st)),
         LAMBDA e1 : EnvironmentNew(Some(e1.rc), e1.st).st))

\* The names and values of the tests.
TestNames == {"a", "c"}

TestValues == {Number(F64(1)), Boolean(FALSE)}

\* The frame d parent links above env, and the number of env's ancestors.
RECURSIVE Ancestor(_, _, _)
Ancestor(h, env, d) ==
    IF d = 0 THEN env ELSE Ancestor(h, Unwrap(h.envs[env].maybe_enclosing), d - 1)

RECURSIVE Ancestors(_, _)
Ancestors(h, env) ==
    IF IsSome(h.envs[env].maybe_enclosing)
    THEN 1 + Ancestors(h, Unwrap(h.envs[env].maybe_enclosing)) ELSE 0

EnvCall(op, env, distance, name, value, r) ==
    [tag |-> r.tag, val |-> r.val, op |-> op, env |-> env, distance |-> distance,
     name |-> name, value |-> value]

EnvInit ==
    /\ mode = "test"
    /\ pc = "test"
    /\ source = NoSource
    /\ statements = <<>>
    /\ st = TestEnv
    /\ result = NoResult
    /\ exit = "running"
    /\ lines = 0
    /\ parser = NoParser

\* env.borrow_mut().define(name, value)
EnvDefineCall ==
    /\ pc = "test"
    /\ \E env \in 1..Len(st.envs), name \in TestNames, value \in TestValues :
          /\ st' = EnvDefine(env, name, value, st)
          /\ result' = EnvCall("define", env, 0, name, value, Ok(Nil, st))
    /\ UNCHANGED <<mode, pc, source, statements, exit, lines, parser>>

\* env.borrow_mut().assign_at(distance, name, value)
EnvAssignAtCall ==
    /\ pc = "test"
    /\ \E env \in 1..Len(st.envs), name \in TestNames, value \in TestValues :
         \E distance \in 0..Ancestors(st, env) :
           \E r \in {EnvAssignAt(env, distance, name, value, st)} :
              /\ st' = r.st
              /\ result' = EnvCall("assign_at", env, distance, name, value, r)
    /\ UNCHANGED <<mode, pc, source, statements, exit, lines, parser>>

\* env.borrow().get_at(distance, name)
EnvGetAtCall ==
    /\ pc = "test"
    /\ \E env \in 1..Len(st.envs), name \in TestNames :
         \E distance \in 0..Ancestors(st, env) :
           \E r \in {EnvGetAt(env, distance, name, st)} :
              /\ st' = r.st
              /\ result' = EnvCall("get_at", env, distance, name, Nil, r)
    /\ UNCHANGED <<mode, pc, source, statements, exit, lines, parser>>

\* get_at and assign_at with a distance one more than the frame has
\* ancestors: the panic! of lines 43 and 61 ends the process.
EnvPastRootCall ==
    /\ pc = "test"
    /\ \E env \in 1..Len(st.envs), name \in TestNames, op \in {"get_at", "assign_at"} :
         \E distance \in {Ancestors(st, env) + 1} :
           \E r \in {IF op = "get_at" THEN EnvGetAt(env, distance, name, st)
                     ELSE EnvAssignAt(env, distance, name, Nil, st)} :
              /\ st' = r.st
              /\ result' = EnvCall(op, env, distance, name, Nil, r)
              /\ pc' = IF r.tag = "Panic" THEN "exited" ELSE pc
              /\ exit' = IF r.tag = "Panic" THEN "panic" ELSE exit
    /\ UNCHANGED <<mode, source, statements, lines, parser>>

\* ThisExpression::eval in a frame of a chain that binds no `this`, with
\* any resolution: the unwrap of line 224 ends the process.
EvalThisCall ==
    /\ pc = "test"
    /\ \E env \in 1..Len(st.envs) :
         \E maybe_distance \in {None} \cup {Some(d) : d \in 0..Ancestors(st, env)} :
           \E r \in {EvalThis([ThisExpression(1) EXCEPT !.maybe_distance = maybe_distance],
                              Context(1, env), st)} :
              /\ st' = r.st
              /\ result' = EnvCall("this", env, 0, "this", Nil, r)
              /\ pc' = IF r.tag = "Panic" THEN "exited" ELSE pc
              /\ exit' = IF r.tag = "Panic" THEN "panic" ELSE exit
    /\ UNCHANGED <<mode, source, statements, lines, parser>>

EnvNext ==
    \/ EnvDefineCall
    \/ EnvAssignAtCall
    \/ EnvGetAtCall
    \/ EnvPastRootCall
    \/ EvalThisCall

EnvSpec == EnvInit /\ [][EnvNext]_vars

\* The binding of name in the frame env: none, or its value.
Binding(h, env, name) ==
    IF name \in DOMAIN h.envs[env].values THEN Some(h.envs[env].values[name]) ELSE None

\* The heaps h and g differ at most in the binding of name in the frame env.
SameButBinding(h, g, env, name) ==
    /\ Len(g.envs) = Len(h.envs)
    /\ \A e \in 1..Len(h.envs) :
          /\ g.envs[e].maybe_enclosing = h.envs[e].maybe_enclosing
          /\ \A n \in TestNames : (e # env \/ n # name) => Binding(g, e, n) = Binding(h, e, n)

\* What the last call returned, by the frame it addressed.
EnvCallReturned ==
    result.tag \notin {"None", "Panic"} =>
        \E frame \in {Ancestor(st, result.env, result.distance)} :
            CASE result.op = "define" ->
                    /\ Binding(st, result.env, result.name) = Some(result.value)
                    /\ EnvGetAt(result.env, 0, result.name, st).tag = "Ok"
                    /\ EnvGetAt(result.env, 0, result.name, st).val = result.value
              [] result.op = "assign_at" ->
                    /\ result.tag \in {"Ok", "Err"}
                    /\ result.tag = "Ok" => Binding(st, frame, result.name) = Some(result.value)
                    /\ result.tag = "Err" =>
                          /\ result.val = "UndefinedVariable"
                          /\ Binding(st, frame, result.name) = None
              [] result.op = "get_at" ->
                    IF IsSome(Binding(st, frame, result.name))
                    THEN result.tag = "Ok" /\ Some(result.val) = Binding(st, frame, result.name)
                    ELSE result.tag = "Err" /\ result.val = "UndefinedVariable"

\* What a call changes: define and a successful assign_at the one binding
\* of the frame they address, get_at and a failed assign_at nothing.
EnvCallChanged ==
    result'.tag # "Panic" =>
    \E frame \in {Ancestor(st, result'.env, result'.distance)} :
        /\ SameButBinding(st, st', frame, result'.name)
        /\ (result'.op = "get_at" \/ result'.tag = "Err") => st' = st
        /\ result'.op = "assign_at" =>
              (result'.tag = "Ok" <=> IsSome(Binding(st, frame, result'.name)))

\* C25: get_at(d, name) and assign_at(d, name, v) address the frame d
\* parent links above the frame they are called on: get_at returns the
\* binding that frame holds, which is what the last define or successful
\* assign_at stored there, since each call changes no other binding;
\* both report UndefinedVariable when that frame has no binding, whatever
\* the other frames of the chain hold; after define(name, v), get_at(0,
\* name) on the same frame returns v.
C25_EnvFrames == []EnvCallReturned /\ [][EnvCallChanged]_vars

\* C25 witness: get_at(1, "a") on e2 reported UndefinedVariable while the
\* global frame, one link further, has a.
C25_Witness ==
    /\ result.tag = "Err"
    /\ result.op = "get_at"
    /\ result.env = 3
    /\ result.distance = 1
    /\ result.name = "a"
    /\ IsSome(Binding(st, 1, "a"))
    /\ Binding(st, 2, "a") = None

\* C25 witness of assign_at: assign_at(2, "a", false) on e2 overwrote a in
\* the global frame (test_assign).
C25_Assigned ==
    /\ result.tag = "Ok"
    /\ result.op = "assign_at"
    /\ result.env = 3
    /\ result.distance = 2
    /\ Binding(st, 1, "a") = Some(Boolean(FALSE))
    /\ Binding(st, 2, "a") = None
    /\ Binding(st, 3, "a") = None

\* C26: no call ends the process: a lookup or an assignment past the root
\* frame, and a `this` or `super` without its binding, give the host an
\* error value.
C26_NoPanic == exit # "panic" /\ result.tag # "Panic"

\* C26: get_at(3, "a") on e2, which has two ancestors, panicked.
C26_PastRootPanicked ==
    /\ exit = "panic"
    /\ result.tag = "Panic"
    /\ result.op = "get_at"
    /\ result.env = 3
    /\ result.distance = 3

\* C26: the evaluation of `this` with no binding of it panicked.
C26_ThisPanicked ==
    /\ exit = "panic"
    /\ result.tag = "Panic"
    /\ result.op = "this"

\* C26, in a run of the interpreter: the parser panicked on the text
\* if (1)  with nothing after it.
C26_ParserPanicked ==
    /\ mode = "file"
    /\ pc = "exited"
    /\ exit = "panic"
    /\ source.fam = "sync"
    /\ source.a = 17
    /\ st.steps = 0

(***************************************************************************)
(* The phases of a run.                                                    *)
(***************************************************************************)
\* What scanning, parsing and resolving make of a source, each as a whole:
\* the resolved statements, the first phase's errors, or a panic.
FrontResult(src) ==
    IF Len(src.text) > 0
    THEN Bind(ScanTokens(src.text),
              LAMBDA scanned : IF scanned.tag = "Ok"
                               THEN RunParsed(Parse(scanned.val)) ELSE scanned)
    ELSE IF Len(src.tokens) > 0 THEN RunParsed(Parse(src.tokens))
    ELSE RunFront(src)

\* The run of a source file is over.
FileOver == mode = "file" /\ pc = "exited"

\* Nothing of the interpreter's state was touched in the run of a file.
Untouched == st = InterpreterNew

\* A step that executes a statement, writes or changes a frame, function,
\* class or instance is a step of run's loop over the statements.
ExecOnlyInLoop ==
    (\/ st'.steps > st.steps
     \/ st'.out # st.out
     \/ st'.envs # st.envs
     \/ st'.funs # st.funs
     \/ st'.classes # st.classes
     \/ st'.insts # st.insts) => pc = "exec"

\* run is in its loop only when the three phases gave no error, and a
\* source with an error of the scanner, the parser or the resolver gives
\* the errors of the first such phase, with nothing touched.
FrontErrorsReturned ==
    /\ (pc = "exec" /\ mode = "file") => FrontResult(source).tag = "Ok"
    /\ FileOver =>
          \E front \in {FrontResult(source)} :
              /\ front.tag = "Err" => (result = front /\ exit = "err" /\ Untouched)
              /\ (result.tag = "Err" /\ result.val.kind # "RuntimeError")
                    => (result = front /\ Untouched)

\* C27: a statement is executed only after scanning, parsing and resolving
\* of the whole source have succeeded; for a source with a scanner, syntax
\* or resolver error run returns the errors of the earliest failing phase
\* and no statement is executed, nothing is written and no frame is changed.
C27_ErrorsBeforeExec ==
    /\ []FrontErrorsReturned
    /\ [](FileOver /\ FrontResult(source).tag # "Ok" => result.tag = "Err")
    /\ [][ExecOnlyInLoop]_vars

\* C27: the text  print 1 if (1)  has a syntax error, and the process was
\* aborted by the parser's panic instead of run returning the error.
C27_PanicNotError ==
    /\ FileOver
    /\ source.fam = "sync"
    /\ source.a = 18
    /\ parser.errors = << ErrorDetail(1, "Expect 'Semicolon'.") >>
    /\ result.tag = "Panic"
    /\ exit = "panic"
    /\ Untouched

\* C27, when the parser does not panic: the run of every source with an
\* error returned the errors of the earliest failing phase.
C27_ReturnedErrors == []FrontErrorsReturned /\ [][ExecOnlyInLoop]_vars

\* C27: the text  print 1; print (; print 2 ? 3;  has an error of the
\* scanner and one of the parser; run returned the scanner's.
C27_ScannerFirst ==
    /\ FileOver
    /\ source.fam = "text"
    /\ source.a = 7
    /\ result = [tag |-> "Err",
                 val |-> [kind |-> "ScannerErrors",
                          details |-> << ErrorDetail(3, "Unexpected character: ?.") >>]]
    /\ parser = NoParser
    /\ Untouched

(***************************************************************************)
(* Termination of parse.                                                   *)
(***************************************************************************)
\* parse's loop is scheduled as long as it has a turn to take: the parser
\* runs in the one thread of the process.
LiveSpec == Spec /\ WF_vars(ParseDeclaration) /\ WF_vars(ParseEnd)

\* The parser at the i-th token of its input.
ParserAt(i) == [parser EXCEPT !.pos = i]

\* The longest text whose every token is tried as the start of a
\* declaration and of a recovery.
MaxText == 40

\* From every token of the text declaration consumes at least one token
\* before it returns, fails or panics, and from every point of the text
\* synchronize stops at that point or later, within the text.
DeclarationConsumes ==
    pc = "parse" /\ parser.pos = 1 /\ Len(parser.tokens) <= MaxText =>
        /\ \A i \in 1..Len(parser.tokens) :
              /\ Declaration(ParserAt(i)).p.pos > i
              /\ Declaration(ParserAt(i)).p.pos <= Len(parser.tokens) + 1
        /\ \A i \in 1..(Len(parser.tokens) + 1) :
              /\ Synchronize(ParserAt(i)).pos >= i
              /\ Synchronize(ParserAt(i)).pos <= Len(parser.tokens) + 1

\* Every turn of parse's loop leaves the parser further on in the same
\* tokens, by at least the one token its declaration consumed.
ParseAdvances ==
    pc = "parse" /\ IsSome(Peek(parser)) =>
        /\ parser'.tokens = parser.tokens
        /\ parser'.pos >= Declaration(parser).p.pos
        /\ Declaration(parser).p.pos > parser.pos
        /\ parser'.pos <= Len(parser.tokens) + 1

\* C28: parse terminates on every token sequence that ends with Eof: each
\* call of declaration consumes at least one token, synchronize never
\* moves backwards, and so parse, once begun, is left (it returns, or a
\* panic ends it) and recovery does not stay on one token.
C28_ParseTerminates ==
    /\ []DeclarationConsumes
    /\ [][ParseAdvances]_vars
    /\ (pc = "parse") ~> (pc # "parse")

\* C28 witness: in  class A { } print 1;  the declaration failed at the
\* stray class, which it consumed; synchronize went on to print, and parse
\* has returned the one error.
C28_Witness ==
    /\ pc = "returned"
    /\ source.fam = "sync"
    /\ source.a = 13
    /\ Declaration(ParserNew(source.tokens)).tag = "Err"
    /\ Declaration(ParserNew(source.tokens)).p.pos = 2
    /\ Synchronize(Declaration(ParserNew(source.tokens)).p).pos = 5
    /\ parser.pos = Len(parser.tokens) + 1
    /\ result = SyntaxErrors(<< ErrorDetail(1, "Expect expression.") >>)

(***************************************************************************)
(* The heights of the resolver's stacks.                                   *)
(***************************************************************************)
\* The statement s and every statement inside it: in blocks, branches,
\* loop bodies, function bodies and the bodies of methods.
RECURSIVE StatementsIn(_)
StatementsIn(s) ==
    {s} \cup
    CASE s.kind \in {"BlockStatement", "FunctionStatement"} ->
            UNION { StatementsIn(s.statements[i]) : i \in 1..Len(s.statements) }
      [] s.kind = "IfStatement" ->
            StatementsIn(s.then_branch)
            \cup (IF IsSome(s.else_branch) THEN StatementsIn(Unwrap(s.else_branch))
                  ELSE {})
      [] s.kind = "WhileStatement" -> StatementsIn(s.body)
      [] s.kind = "ClassStatement" ->
            UNION { UNION { StatementsIn(s.methods[name].statements[i]) :
                               i \in 1..Len(s.methods[name].statements) } :
                       name \in DOMAIN s.methods }
      [] OTHER -> {}

\* The statements parse returned for the source, none when it returned an
\* error or nothing.
ParsedStatements(src) ==
    IF Len(src.text) > 0
    THEN Bind(ScanTokens(src.text),
              LAMBDA scanned :
                 IF scanned.tag # "Ok" THEN <<>>
                 ELSE Bind(Parse(scanned.val),
                           LAMBDA parsed : IF parsed.tag = "Ok" THEN parsed.val ELSE <<>>))
    ELSE IF Len(src.tokens) > 0
    THEN Bind(Parse(src.tokens),
              LAMBDA parsed : IF parsed.tag = "Ok" THEN parsed.val ELSE <<>>)
    ELSE IF Len(src.scanner_errors) + Len(src.syntax_errors) > 0 THEN <<>>
    ELSE src.statements

\* Scopes a statement is resolved in: at the top level, in a function, and
\* in a method of a subclass with an error recorded.
StartScopes ==
    { ScopesNew,
      BeginScope(BeginFunction(ScopesNew, "Function")),
      BeginScope(BeginFunction(
          Define(BeginScope(Define(BeginScope(
              PushError(BeginClass(ScopesNew, "Subclass"), 1,
                        "Can't return from top-level code.")), "super")), "this"),
          "Initializer")) }

Heights(sc) == << Len(sc.scopes), Len(sc.function_types), Len(sc.class_types) >>

\* resolve has returned in this state and no statement was executed yet.
ResolveReturned == pc \in {"exec", "returned"} /\ st.steps = 0

\* C30: resolving a statement, at the top level or nested, from any scopes
\* leaves the scope stack, the function-type stack and the class-type
\* stack as high as they were, whatever errors it records; and the three
\* stacks are empty when resolve returns.
C30_StackHeights ==
    ResolveReturned =>
        \E program \in {ParsedStatements(source)} :
            /\ \A i \in 1..Len(program) :
                  \A s \in StatementsIn(program[i]) :
                     \A sc \in StartScopes :
                        Heights(ResolveStmt(s, sc).sc) = Heights(sc)
            /\ Heights(ResolveStatements(program, ScopesNew).sc) = << 0, 0, 0 >>

\* C30 witness: a program with a subclass whose method uses super and a
\* class without superclass whose method uses super was resolved: the
\* error is recorded and returned, and the stacks are empty.
C30_Witness ==
    /\ pc = "returned"
    /\ source.fam = "superuse"
    /\ source.a = 9
    /\ \E i \in 1..Len(source.statements) :
          /\ source.statements[i].kind = "ClassStatement"
          /\ IsSome(source.statements[i].maybe_superclass)
    /\ Len(ResolveStatements(source.statements, ScopesNew).sc.errors) = 1
    /\ result.tag = "Err"
    /\ result.val.kind = "ResolverErrors"
    /\ Heights(ResolveStatements(source.statements, ScopesNew).sc) = << 0, 0, 0 >>

====
